---- MODULE Spec2Model ----
(***************************************************************************)
(* Model of the hierarchical priority ordering engine of heaven-bml        *)
(* (src/heaven_bml/tree_kanban.py) over an abstract label store.           *)
(*                                                                         *)
(* Encoding of label text.  A priority text is kept as the sequence of its *)
(* dot-separated parts (the result of str.split('.')), each part an        *)
(* integer code:                                                           *)
(*    n in 0 .. PadBase-1      the canonical decimal numeral of n          *)
(*    PadBase + n              the numeral of n written with a leading 0   *)
(*    -99 .. -1                the numeral of a negative integer           *)
(*    HIGH, MEDIUM, LOW, NONE  the words 'high', 'medium', 'low', 'none'   *)
(*    JUNK                     some other non-numeric word                 *)
(*    EMPTY                    the empty string                            *)
(* A key (parsed priority) is a sequence of integers.                      *)
(***************************************************************************)
EXTENDS Integers, Sequences, FiniteSets, TLC

\* ---------------------------------------------------------------- bounds
NItems == 3
\* longest list handed to calculate_insertion_priority, and most parts of a
\* text handed to parse_tree_priority, when they are called on their own
MaxLen == 3
\* calls made in one behaviour of Spec, and of PairSpec
MaxOps == 1
PairOps == 2
\* store requests that fail in one behaviour
MaxFaults == 2

\* ------------------------------------------------------- text encoding
PadBase == 10000
\* HugeBase + n: the numeral of the integer 10^400 + n, which int() reads and
\* float() cannot hold; OverlongBase + n: a numeral of more digits than int()
\* converts (sys.get_int_max_str_digits(), 4300), for which it raises
\* ValueError
HugeBase == 20000
OverlongBase == 30000
WordBase == -100
HIGH == -101
MEDIUM == -102
LOW == -103
NONE == -104
JUNK == -105
EMPTY == -106
\* stands for "no value: OverflowError was raised"
OverflowError == -107
SENTINEL == 999

Items == 1 .. NItems
\* an issue number that names no issue of the repository
Ghost == NItems + 1
Ids == Items \cup {Ghost}

Stages == {"backlog", "plan", "build", "measure", "learn", "blocked", "archived"}

\* int(part): raises ValueError (modelled by IsIntText false) for words
IsIntText(p) == p > WordBase /\ p < OverlongBase
int(p) == IF p >= HugeBase THEN p ELSE IF p >= PadBase THEN p - PadBase ELSE p
\* str(n) for an integer n: its canonical numeral
str(n) == n
\* str.isdigit() of one part (non-empty, digits only)
IsDigitPart(p) == p >= 0

\* (variant: the legacy aliases are not known)
parse_tree_priority_NoAliases(priority_str) ==
    IF \A k \in 1 .. Len(priority_str) : IsIntText(priority_str[k])
    THEN [k \in 1 .. Len(priority_str) |-> int(priority_str[k])]
    ELSE <<SENTINEL>>

parse_tree_priority(priority_str) ==
    IF priority_str = <<HIGH>> THEN <<1>>
    ELSE IF priority_str = <<MEDIUM>> THEN <<2>>
    ELSE IF priority_str = <<LOW>> THEN <<3>>
    ELSE IF \A k \in 1 .. Len(priority_str) : IsIntText(priority_str[k])
    THEN [k \in 1 .. Len(priority_str) |-> int(priority_str[k])]
    ELSE <<SENTINEL>>

\* p.replace('.', '').isdigit()
IsNumericPriority(p) ==
    /\ \A k \in 1 .. Len(p) : IsDigitPart(p[k]) \/ p[k] = EMPTY
    /\ \E k \in 1 .. Len(p) : IsDigitPart(p[k])

\* "<" on two numerals taken as text, for integers below 100
TextLess(n, m) ==
    LET first(x) == IF x >= 10 THEN x \div 10 ELSE x
    IN \/ first(n) < first(m)
       \/ first(n) = first(m) /\ n < 10 /\ m >= 10
       \/ first(n) = first(m) /\ n >= 10 /\ m >= 10 /\ n < m

\* (variant: the components are compared as text, not as integers)
ListLess_ComponentsAsText(a, b) ==
    \/ \E k \in 1 .. Len(a) :
          /\ k <= Len(b)
          /\ \A j \in 1 .. (k - 1) : a[j] = b[j]
          /\ TextLess(a[k], b[k])
    \/ /\ Len(a) < Len(b)
       /\ \A j \in 1 .. Len(a) : a[j] = b[j]

\* Python's "<" on lists of integers
ListLess(a, b) ==
    \/ \E k \in 1 .. Len(a) :
          /\ k <= Len(b)
          /\ \A j \in 1 .. (k - 1) : a[j] = b[j]
          /\ a[k] < b[k]
    \/ /\ Len(a) < Len(b)
       /\ \A j \in 1 .. Len(a) : a[j] = b[j]

\* list.sort(key=lambda x: x['priority_parsed']): stable, ascending
SortedBy(seq) ==
    LET n == Len(seq)
        key(x) == x.priority_parsed
        rank(i) == Cardinality({j \in 1 .. n :
                       \/ ListLess(key(seq[j]), key(seq[i]))
                       \/ key(seq[j]) = key(seq[i]) /\ j < i}) + 1
    IN [r \in 1 .. n |-> seq[CHOOSE i \in 1 .. n : rank(i) = r]]

\* The issues of the repository in the order the store lists them
\* (newest first).
ListedIssues == [k \in 1 .. NItems |-> NItems + 1 - k]

\* The values the "priority" variable of get_all_prioritized_issues can take
\* for an issue carrying the priority labels S; the order in which the store
\* lists the labels of one issue is the store's choice.
PriorityChoices(S) ==
    LET numeric_priorities == {p \in S : IsNumericPriority(p)}
        chosen == IF S = {} THEN {<<NONE>>}
                  ELSE IF numeric_priorities # {} THEN numeric_priorities
                  ELSE S
    IN {IF p = <<EMPTY>> THEN <<NONE>> ELSE p : p \in chosen}

\* get_all_prioritized_issues, where pick[i] is the priority label the loop
\* selects for issue i
get_all_prioritized_issues(pick) ==
    LET prioritized_issues ==
            [k \in 1 .. NItems |->
                [number |-> ListedIssues[k],
                 priority |-> pick[ListedIssues[k]],
                 priority_parsed |-> parse_tree_priority(pick[ListedIssues[k]])]]
    IN SortedBy(prioritized_issues)

\* the selections the loop can make for issues 1 .. n
RECURSIVE PicksUpTo(_, _)
PicksUpTo(P, n) ==
    IF n = 0 THEN {<<>>}
    ELSE {Append(pick, c) : pick \in PicksUpTo(P, n - 1), c \in PriorityChoices(P[n])}

Picks(P) == PicksUpTo(P, NItems)

\* [issue for issue in all_issues if issue['priority'] != 'none']
IsPrioritized(issue) == issue.priority # <<NONE>>
PrioritizedOnly(all_issues) == SelectSeq(all_issues, IsPrioritized)

\* index (1-based) of the first entry with the given number, 0 if none
IndexOf(issues, id) ==
    IF \E k \in 1 .. Len(issues) : issues[k].number = id
    THEN CHOOSE k \in 1 .. Len(issues) :
            /\ issues[k].number = id
            /\ \A j \in 1 .. (k - 1) : issues[j].number # id
    ELSE 0

\* list.pop(i), i 1-based
Pop(issues, i) == [k \in 1 .. (Len(issues) - 1) |->
                      IF k < i THEN issues[k] ELSE issues[k + 1]]

\* tree_to_comparable of both keys and their midpoint, which are computed
\* and not used: float arithmetic on an integer beyond the range of a float
\* (the root added to a float or halved, a later part divided by 100 ** i)
\* raises OverflowError
MidpointOverflows(before_priority, after_priority) ==
    \/ \E k \in 1 .. Len(before_priority) : before_priority[k] >= HugeBase
    \/ \E k \in 1 .. Len(after_priority) : after_priority[k] >= HugeBase

\* calculate_insertion_priority(issues, insert_position); insert_position is
\* the zero-based Python index; <<OverflowError>> when it raises
calculate_insertion_priority(issues, insert_position) ==
    IF Len(issues) = 0 THEN <<str(1)>>
    ELSE IF insert_position <= 0 THEN
        LET first_priority == parse_tree_priority(issues[1].priority)
        IN IF first_priority[1] > 1
           THEN <<str(first_priority[1] - 1)>>
           ELSE <<str(0), str(5)>>
    ELSE IF insert_position >= Len(issues) THEN
        LET last_priority == parse_tree_priority(issues[Len(issues)].priority)
        IN <<str(last_priority[1] + 1)>>
    ELSE
        LET before_priority == parse_tree_priority(issues[insert_position].priority)
            after_priority == parse_tree_priority(issues[insert_position + 1].priority)
        IN IF before_priority[1] # after_priority[1]
           THEN <<str(before_priority[1] + 1)>>
           ELSE IF MidpointOverflows(before_priority, after_priority)
           THEN <<OverflowError>>
           ELSE IF Len(before_priority) = Len(after_priority)
           THEN [k \in 1 .. Len(before_priority) |->
                    IF k = Len(before_priority)
                    THEN str(before_priority[k] + 1)
                    ELSE str(before_priority[k])]
           ELSE <<str(before_priority[1]),
                  IF Len(before_priority) > 1 THEN str(before_priority[2]) ELSE str(1),
                  str(5)>>

\* ------------------------------------------------------------------ state
VARIABLES
    prio,      \* prio[i]: the texts of the priority-* labels issue i carries
    stage,     \* stage[i]: the names of the status-* labels issue i carries
    op,        \* the call in flight (kind "idle" when there is none)
    hist,      \* finished calls: the last one and, when the last one was its
               \* immediate follow-up, the one before it
    budget,    \* number of calls that may still be started
    faults,    \* number of store requests that may still fail
    eco        \* the ecosystem.json of the meta repository: the repos lists
               \* of its sections, or NoFile

vars == <<prio, stage, op, hist, budget, faults, eco>>

\* the repository has no ecosystem.json (or one that does not parse)
NoFile == [missing |-> TRUE]

\* a store request of the step fails / none does
Fault == faults > 0 /\ faults' = faults - 1
NoFault == UNCHANGED faults

NoLabels == [i \in Items |-> {}]

Idle == [kind |-> "idle", pc |-> "idle", issue_id |-> 0, target_issue_id |-> 0,
         below_issue_id |-> 0, new_priority |-> <<>>, labels |-> {},
         status |-> "", stages |-> {},
         slot_issues |-> <<>>, all_repo_issues |-> {},
         priority_updates |-> <<>>, status_updates |-> <<>>,
         phase |-> "", pending |-> {}, todo |-> <<>>,
         issued |-> {}, failed |-> {}, failed_phase |-> "",
         root_priority |-> <<>>,
         position |-> 0, listing |-> <<>>, pre |-> NoLabels, prestage |-> NoLabels,
         calls |-> <<>>, agent_result |-> "", config |-> NoFile,
         repo_name |-> "", ecosystem_type |-> "", target_repo |-> "", section |-> ""]

MoveKinds == {"move_issue_above", "move_issue_below", "move_issue_between"}

\* Labelled boards the engine starts from
FlatBoard == [i \in Items |-> {<<i>>}]
GapBoard == [i \in Items |-> {<<2 * i>>}]
TreeBoard == [i \in Items |-> IF i = 1 THEN {<<1>>} ELSE {<<1, i - 1>>}]
DeepBoard == [i \in Items |-> IF i = 1 THEN {<<1, 1, 5>>} ELSE {<<1, i>>}]
TiedBoard == [i \in Items |-> {<<(i + 1) \div 2>>}]
LegacyBoard == [i \in Items |-> IF i = 1 THEN {<<HIGH>>}
                                 ELSE IF i = 2 THEN {<<JUNK>>}
                                 ELSE IF i = 3 THEN {}
                                 ELSE {<<PadBase + i>>}]
DoubleBoard == [i \in Items |-> IF i = 1 THEN {<<1>>, <<2, 1>>}
                                 ELSE IF i = 2 THEN {<<2>>, <<LOW>>}
                                 ELSE {<<i>>}]
Boards == {FlatBoard, GapBoard, TreeBoard, DeepBoard, TiedBoard, LegacyBoard, DoubleBoard}

InitStage == [i \in Items |-> IF i = 1 THEN {"build"}
                               ELSE IF i = 2 THEN {}
                               ELSE {"backlog"}]

InitStore ==
    /\ prio \in Boards
    /\ stage = InitStage
    /\ op = Idle
    /\ hist = <<>>

Init == InitStore /\ budget = MaxOps /\ eco = NoFile /\ faults = MaxFaults

\* record of a finished call
Done(o, outcome, result, success) ==
    [kind |-> o.kind, issue_id |-> o.issue_id, target_issue_id |-> o.target_issue_id,
     below_issue_id |-> o.below_issue_id, outcome |-> outcome, result |-> result,
     success |-> success, new_priority |-> o.new_priority, position |-> o.position,
     status |-> o.status, slot_issues |-> o.slot_issues,
     priority_updates |-> o.priority_updates, status_updates |-> o.status_updates,
     phase |-> o.phase,
     issued |-> o.issued, failed |-> o.failed, failed_phase |-> o.failed_phase,
     root_priority |-> o.root_priority,
     listing |-> o.listing, pre |-> o.pre, prestage |-> o.prestage,
     calls |-> o.calls, config |-> o.config,
     repo_name |-> o.repo_name, ecosystem_type |-> o.ecosystem_type,
     target_repo |-> o.target_repo, section |-> o.section]

Finish(o, outcome, result, success) ==
    /\ hist' = Append(hist, Done(o, outcome, result, success))
    /\ op' = Idle

\* a call can start once the result of the one before it has been handed to
\* its caller; the only thing the next call is compared with is a
\* move_issue_above that wrote its key (see Carry)
CanCall ==
    /\ op.kind = "idle" /\ budget > 0
    /\ IF hist = <<>> THEN TRUE
       ELSE LET last == hist[Len(hist)]
            IN last.kind = "move_issue_above" /\ last.outcome = "returned" /\ last.success

\* hist when a call starts: the last finished call is kept only if the new
\* call is move_issue_below of the same issues right after a move_issue_above
\* that wrote its key
Carry(kind, issue_id, target_issue_id) ==
    LET last == hist[Len(hist)]
    IN IF /\ hist # <<>>
          /\ kind = "move_issue_below"
          /\ last.kind = "move_issue_above" /\ last.outcome = "returned" /\ last.success
          /\ last.issue_id = issue_id /\ last.target_issue_id = target_issue_id
       THEN <<last>>
       ELSE <<>>

\* what get_all_prioritized_issues can return in the current label state:
\* the sorted listing, or [] when the request or its decoding fails
Listings == {get_all_prioritized_issues(pick) : pick \in Picks(prio)} \cup {<<>>}

\* ---------------------------------------------------------- move operations
Raise(call, reason) ==
    /\ hist' = Append(Carry(call.kind, call.issue_id, call.target_issue_id),
                      Done(call, "raised", reason, FALSE))
    /\ op' = Idle

\* insert_issue_at_position up to its call of set_issue_tree_priority, whose
\* store requests are the steps that follow
insert_issue_at_position(call, issues, insert_position) ==
    LET new_priority == calculate_insertion_priority(issues, insert_position)
    IN IF new_priority = <<OverflowError>>
       THEN Raise([call EXCEPT !.position = insert_position], "OverflowError")
       ELSE /\ op' = [call EXCEPT !.pc = "create_label",
                                  !.position = insert_position,
                                  !.new_priority = new_priority]
            /\ hist' = Carry(call.kind, call.issue_id, call.target_issue_id)

Call(kind, issue_id, target_issue_id, below_issue_id, prioritized_only) ==
    [Idle EXCEPT !.kind = kind, !.issue_id = issue_id,
                 !.target_issue_id = target_issue_id,
                 !.below_issue_id = below_issue_id,
                 !.listing = prioritized_only, !.pre = prio, !.prestage = stage]

\* (variant: a target that is not found is taken to be the first issue)
move_issue_above_DefaultsToTop(issue_id, target_issue_id) ==
    /\ CanCall
    /\ \E all_issues \in Listings :
          LET prioritized_only == PrioritizedOnly(all_issues)
              i == IndexOf(prioritized_only, issue_id)
              remaining == Pop(prioritized_only, i)
              t == IndexOf(remaining, target_issue_id)
              call == Call("move_issue_above", issue_id, target_issue_id, 0, prioritized_only)
          IN (IF all_issues = <<>> THEN Fault ELSE NoFault) /\
             IF i = 0 THEN Raise(call, "not found or has no priority")
             ELSE IF t = 0 THEN insert_issue_at_position(call, remaining, 0)
             ELSE insert_issue_at_position(call, remaining, t - 1)
    /\ budget' = budget - 1 /\ UNCHANGED eco
    /\ UNCHANGED <<prio, stage>>

move_issue_above(issue_id, target_issue_id) ==
    /\ CanCall
    /\ \E all_issues \in Listings :
          LET prioritized_only == PrioritizedOnly(all_issues)
              i == IndexOf(prioritized_only, issue_id)
              remaining == Pop(prioritized_only, i)
              t == IndexOf(remaining, target_issue_id)
              call == Call("move_issue_above", issue_id, target_issue_id, 0, prioritized_only)
          IN (IF all_issues = <<>> THEN Fault ELSE NoFault) /\
             IF i = 0 THEN Raise(call, "not found or has no priority")
             ELSE IF t = 0 THEN Raise(call, "Target issue not found")
             ELSE insert_issue_at_position(call, remaining, t - 1)
    /\ budget' = budget - 1 /\ UNCHANGED eco
    /\ UNCHANGED <<prio, stage>>

move_issue_below(issue_id, target_issue_id) ==
    /\ CanCall
    /\ \E all_issues \in Listings :
          LET prioritized_only == PrioritizedOnly(all_issues)
              i == IndexOf(prioritized_only, issue_id)
              remaining == Pop(prioritized_only, i)
              t == IndexOf(remaining, target_issue_id)
              call == Call("move_issue_below", issue_id, target_issue_id, 0, prioritized_only)
          IN (IF all_issues = <<>> THEN Fault ELSE NoFault) /\
             IF i = 0 THEN Raise(call, "not found or has no priority")
             ELSE IF t = 0 THEN Raise(call, "Target issue not found")
             ELSE insert_issue_at_position(call, remaining, t)
    /\ budget' = budget - 1 /\ UNCHANGED eco
    /\ UNCHANGED <<prio, stage>>

\* (variant: the positions of above and below are not compared)
move_issue_between_NoOrderCheck(issue_id, above_issue_id, below_issue_id) ==
    /\ CanCall
    /\ \E all_issues \in Listings :
          LET prioritized_only == PrioritizedOnly(all_issues)
              i == IndexOf(prioritized_only, issue_id)
              remaining == Pop(prioritized_only, i)
              above_position == IndexOf(remaining, above_issue_id)
              below_position == IF below_issue_id = above_issue_id THEN 0
                                ELSE IndexOf(remaining, below_issue_id)
              call == Call("move_issue_between", issue_id, above_issue_id,
                           below_issue_id, prioritized_only)
          IN (IF all_issues = <<>> THEN Fault ELSE NoFault) /\
             IF i = 0 THEN Raise(call, "not found or has no priority")
             ELSE IF above_position = 0 THEN Raise(call, "Above issue not found")
             ELSE IF below_position = 0 THEN Raise(call, "Below issue not found")
             ELSE insert_issue_at_position(call, remaining, above_position)
    /\ budget' = budget - 1 /\ UNCHANGED eco
    /\ UNCHANGED <<prio, stage>>

move_issue_between(issue_id, above_issue_id, below_issue_id) ==
    /\ CanCall
    /\ \E all_issues \in Listings :
          LET prioritized_only == PrioritizedOnly(all_issues)
              i == IndexOf(prioritized_only, issue_id)
              remaining == Pop(prioritized_only, i)
              \* the loop tests "== above" first and "== below" only otherwise
              above_position == IndexOf(remaining, above_issue_id)
              below_position == IF below_issue_id = above_issue_id THEN 0
                                ELSE IndexOf(remaining, below_issue_id)
              call == Call("move_issue_between", issue_id, above_issue_id,
                           below_issue_id, prioritized_only)
          IN (IF all_issues = <<>> THEN Fault ELSE NoFault) /\
             IF i = 0 THEN Raise(call, "not found or has no priority")
             ELSE IF above_position = 0 THEN Raise(call, "Above issue not found")
             ELSE IF below_position = 0 THEN Raise(call, "Below issue not found")
             ELSE IF above_position >= below_position
             THEN Raise(call, "Above issue must have higher priority than below issue")
             ELSE insert_issue_at_position(call, remaining, above_position)
    /\ budget' = budget - 1 /\ UNCHANGED eco
    /\ UNCHANGED <<prio, stage>>

\* ------------------------------------------------ set_issue_tree_priority
\* Texts a caller passes to the set-priority command
SetTexts == {<<1>>, <<1, 1>>, <<PadBase + 2>>, <<JUNK>>}

\* BMLServer.set_issue_priority -> set_issue_tree_priority(repo, id, priority)
set_issue_priority(issue_id, priority) ==
    /\ CanCall
    /\ op' = [Call("set_issue_tree_priority", issue_id, 0, 0, <<>>)
                 EXCEPT !.pc = "create_label", !.new_priority = priority]
    /\ hist' = <<>>
    /\ budget' = budget - 1 /\ UNCHANGED eco
    /\ UNCHANGED <<prio, stage, faults>>

InSetPriority ==
    op.kind \in MoveKinds \cup {"set_issue_tree_priority",
                               "set_issue_tree_priority_with_inheritance"}

\* what the caller of set_issue_tree_priority makes of its result: the moves
\* return their confirmation text whatever it is, the set-priority command
\* reports it, and set_issue_tree_priority_with_inheritance returns False
\* when it is False and goes on to the parent lookup otherwise
ReturnFromSetPriority(success) ==
    IF op.kind \in MoveKinds
    THEN Finish(op, "returned", "Moved issue", success)
    ELSE IF op.kind = "set_issue_tree_priority_with_inheritance"
    THEN IF success THEN op' = [op EXCEPT !.pc = "find_parent"] /\ UNCHANGED hist
         ELSE Finish(op, "returned", "False", FALSE)
    ELSE Finish(op, "returned", IF success THEN "Set issue" ELSE "Failed to set issue", success)

\* create_priority_label_if_needed: True when the label exists or was
\* created, False when it could not be created
create_priority_label_if_needed ==
    /\ InSetPriority /\ op.pc = "create_label"
    /\ \/ op' = [op EXCEPT !.pc = "view"] /\ UNCHANGED hist /\ NoFault
       \/ ReturnFromSetPriority(FALSE) /\ Fault
    /\ UNCHANGED <<prio, stage, budget, eco>>

\* gh issue view --json labels: the priority labels to remove; none when the
\* request fails or its output is not JSON
ViewLabels ==
    /\ InSetPriority /\ op.pc = "view"
    /\ \/ /\ op.issue_id \in Items /\ NoFault
          /\ op' = [op EXCEPT !.labels = prio[op.issue_id],
                              !.pc = IF prio[op.issue_id] = {} THEN "add" ELSE "remove"]
       \/ /\ IF op.issue_id \in Items THEN Fault ELSE NoFault
          /\ op' = [op EXCEPT !.pc = "add"]
    /\ UNCHANGED <<prio, stage, hist, budget, eco>>

\* one gh issue edit --remove-label of the loop; its result is not checked
RemoveLabel ==
    /\ InSetPriority /\ op.pc = "remove"
    /\ \E label \in op.labels :
          /\ op' = [op EXCEPT !.labels = @ \ {label},
                              !.pc = IF op.labels = {label} THEN "add" ELSE "remove"]
          /\ \/ prio' = [prio EXCEPT ![op.issue_id] = @ \ {label}] /\ NoFault
             \/ UNCHANGED prio /\ Fault
    /\ UNCHANGED <<stage, hist, budget, eco>>

\* (variant: the target issue is relabelled along with the moving one)
AddLabel_RenumbersTarget ==
    /\ InSetPriority /\ op.pc = "add"
    /\ \/ /\ op.issue_id \in Items
          /\ prio' = [i \in Items |->
                         IF i = op.issue_id THEN prio[i] \cup {op.new_priority}
                         ELSE IF i = op.target_issue_id THEN {op.new_priority \o <<1>>}
                         ELSE prio[i]]
          /\ ReturnFromSetPriority(TRUE) /\ NoFault
       \/ /\ UNCHANGED prio
          /\ IF op.issue_id \in Items THEN Fault ELSE NoFault
          /\ ReturnFromSetPriority(FALSE)
    /\ UNCHANGED <<stage, budget, eco>>

\* (variant: the failure of the add request is not caught)
AddLabel_Uncaught ==
    /\ InSetPriority /\ op.pc = "add"
    /\ \/ /\ op.issue_id \in Items
          /\ prio' = [prio EXCEPT ![op.issue_id] = @ \cup {op.new_priority}]
          /\ ReturnFromSetPriority(TRUE) /\ NoFault
       \/ /\ UNCHANGED prio
          /\ IF op.issue_id \in Items THEN Fault ELSE NoFault
          /\ Finish(op, "raised", "CalledProcessError", FALSE)
    /\ UNCHANGED <<stage, budget, eco>>

\* gh issue edit --add-label priority-<new>: True on success, else False
AddLabel ==
    /\ InSetPriority /\ op.pc = "add"
    /\ \/ /\ op.issue_id \in Items
          /\ prio' = [prio EXCEPT ![op.issue_id] = @ \cup {op.new_priority}]
          /\ ReturnFromSetPriority(TRUE) /\ NoFault
       \/ /\ UNCHANGED prio
          /\ IF op.issue_id \in Items THEN Fault ELSE NoFault
          /\ ReturnFromSetPriority(FALSE)
    /\ UNCHANGED <<stage, budget, eco>>

\* ------------------------------------------------------- set_issue_status
\* Stage names a caller passes to the set-status command
StatusInputs == {"build", "blocked", "archived"}

\* (variant: an archived issue is not given another status)
set_issue_status_ArchivedIsFinal(issue_id, status) ==
    /\ CanCall
    /\ LET call == [Call("set_issue_status", issue_id, 0, 0, <<>>)
                       EXCEPT !.pc = "create_status_label", !.status = status]
       IN IF issue_id \in Items /\ "archived" \in stage[issue_id]
          THEN /\ op' = Idle
               /\ hist' = <<Done(call, "returned", "Failed to set issue", FALSE)>>
          ELSE op' = call /\ hist' = <<>>
    /\ budget' = budget - 1 /\ UNCHANGED eco
    /\ UNCHANGED <<prio, stage, faults>>

\* BMLServer.set_issue_status -> set_issue_status(repo, int(id), status)
set_issue_status(issue_id, status) ==
    /\ CanCall
    /\ op' = [Call("set_issue_status", issue_id, 0, 0, <<>>)
                 EXCEPT !.pc = "create_status_label", !.status = status]
    /\ hist' = <<>>
    /\ budget' = budget - 1 /\ UNCHANGED eco
    /\ UNCHANGED <<prio, stage, faults>>

\* get_parent_priority: the text without its last part, None (here <<>>)
\* for a text of one part
get_parent_priority(priority) ==
    IF Len(priority) > 1 THEN SubSeq(priority, 1, Len(priority) - 1) ELSE <<>>

\* "if parent_priority:" is false for None and for the empty text
HasParentText(priority) ==
    get_parent_priority(priority) \notin {<<>>, <<EMPTY>>}

TreeKinds == {"set_issue_tree_priority_with_inheritance", "sync_tree_statuses"}

InSetStatus == op.kind \in {"set_issue_status"} \cup TreeKinds

\* what follows the inheritance of one issue: the end of
\* set_issue_tree_priority_with_inheritance (return True), or the next
\* (issue_num, priority) of the loop of sync_tree_statuses
Continue(o) ==
    IF o.kind = "set_issue_tree_priority_with_inheritance"
    THEN Finish(o, "returned", "True", TRUE)
    ELSE IF o.todo = <<>>
    THEN Finish(o, "returned", "None", TRUE)
    ELSE /\ op' = [o EXCEPT !.issue_id = Head(o.todo)[1],
                            !.new_priority = Head(o.todo)[2],
                            !.todo = Tail(o.todo),
                            !.labels = {}, !.stages = {},
                            !.pc = "find_parent"]
         /\ UNCHANGED hist

\* what the caller of set_issue_status makes of its result: the command
\* reports it, the two inheritance functions do not look at it
ReturnFromSetStatus(success) ==
    IF op.kind \in TreeKinds THEN Continue(op)
    ELSE Finish(op, "returned", IF success THEN "Set issue" ELSE "Failed to set issue",
                success)

\* create_status_label_if_needed: True when the label exists or was created
create_status_label_if_needed ==
    /\ InSetStatus /\ op.pc = "create_status_label"
    /\ \/ op' = [op EXCEPT !.pc = "add_status"] /\ UNCHANGED hist /\ NoFault
       \/ ReturnFromSetStatus(FALSE) /\ Fault
    /\ UNCHANGED <<prio, stage, budget, eco>>

\* (variant: the old status labels are taken off before the new one is added)
AddStatusLabel_RemovesFirst ==
    /\ InSetStatus /\ op.pc = "add_status"
    /\ \/ /\ op.issue_id \in Items
          /\ stage' = [stage EXCEPT ![op.issue_id] = {op.status}]
          /\ op' = [op EXCEPT !.pc = "view_status"]
          /\ UNCHANGED hist /\ NoFault
       \/ /\ IF op.issue_id \in Items
             THEN stage' = [stage EXCEPT ![op.issue_id] = {}] /\ Fault
             ELSE UNCHANGED stage /\ NoFault
          /\ ReturnFromSetStatus(FALSE)
    /\ UNCHANGED <<prio, budget, eco>>

\* gh issue edit --add-label status-<status>, checked
AddStatusLabel ==
    /\ InSetStatus /\ op.pc = "add_status"
    /\ \/ /\ op.issue_id \in Items
          /\ stage' = [stage EXCEPT ![op.issue_id] = @ \cup {op.status}]
          /\ op' = [op EXCEPT !.pc = "view_status"]
          /\ UNCHANGED hist /\ NoFault
       \/ /\ UNCHANGED stage
          /\ IF op.issue_id \in Items THEN Fault ELSE NoFault
          /\ ReturnFromSetStatus(FALSE)
    /\ UNCHANGED <<prio, budget, eco>>

\* gh issue view --json labels: the other status labels, to be removed; none
\* when the request fails or its output is not JSON
ViewStatusLabels ==
    /\ InSetStatus /\ op.pc = "view_status"
    /\ \/ /\ NoFault
          /\ LET labels == stage[op.issue_id] \ {op.status}
             IN IF labels = {} THEN ReturnFromSetStatus(TRUE)
                ELSE op' = [op EXCEPT !.stages = labels, !.pc = "remove_status"]
                     /\ UNCHANGED hist
       \/ /\ Fault
          /\ ReturnFromSetStatus(TRUE)
    /\ UNCHANGED <<prio, stage, budget, eco>>

\* one gh issue edit --remove-label of the clean-up loop, unchecked
RemoveStatusLabel ==
    /\ InSetStatus /\ op.pc = "remove_status"
    /\ \E label \in op.stages :
          /\ \/ stage' = [stage EXCEPT ![op.issue_id] = @ \ {label}] /\ NoFault
             \/ UNCHANGED stage /\ Fault
          /\ IF op.stages = {label} THEN ReturnFromSetStatus(TRUE)
             ELSE op' = [op EXCEPT !.stages = @ \ {label}] /\ UNCHANGED hist
    /\ UNCHANGED <<prio, budget, eco>>

\* ------------------------------------------------- status inheritance
\* Texts a caller passes as the priority of the issue that is to inherit
InheritTexts == {<<1>>, <<1, 1>>, <<1, 1, 1>>, <<2, 1>>, <<PadBase + 1, 1>>}

\* Texts a caller passes as the root of the tree to bring into line
RootTexts == {<<1>>, <<1, 1>>, <<2>>}

\* set_issue_tree_priority_with_inheritance: first the priority label
set_issue_tree_priority_with_inheritance(issue_number, priority) ==
    /\ CanCall /\ hist = <<>>
    /\ op' = [Call("set_issue_tree_priority_with_inheritance", issue_number, 0, 0, <<>>)
                 EXCEPT !.pc = "create_label", !.new_priority = priority]
    /\ budget' = budget - 1 /\ UNCHANGED eco
    /\ UNCHANGED <<prio, stage, hist, faults>>

\* str.startswith for one dot-separated part: numerals are compared digit
\* by digit, the empty part starts every part
NumeralStartsWith(n, m) ==
    n = m \/ \E k \in 1 .. 4 : n >= 10 ^ k /\ n \div (10 ^ k) = m

PartStartsWith(part, prefix) ==
    \/ prefix = part
    \/ prefix = EMPTY
    \/ /\ prefix >= 0 /\ prefix < PadBase /\ part >= 0 /\ part < PadBase
       /\ NumeralStartsWith(part, prefix)
    \/ prefix = 0 /\ part >= PadBase
    \/ /\ prefix >= PadBase /\ part >= PadBase
       /\ NumeralStartsWith(part - PadBase, prefix - PadBase)

\* label['name'].startswith(f'priority-{root_priority}')
StartsWith(priority, root_priority) ==
    LET n == Len(root_priority)
    IN /\ n <= Len(priority)
       /\ \A k \in 1 .. (n - 1) : priority[k] = root_priority[k]
       /\ PartStartsWith(priority[n], root_priority[n])

\* the (number, priority) pairs the loop over the listing collects from its
\* k-th issue on: for each issue the first label that starts with the root
\* text, the order of the labels of one issue being the store's choice
RECURSIVE TreeIssuesFrom(_, _)
TreeIssuesFrom(k, root_priority) ==
    IF k > NItems THEN {<<>>}
    ELSE LET number == ListedIssues[k]
             matching == {p \in prio[number] : StartsWith(p, root_priority)}
             rest == TreeIssuesFrom(k + 1, root_priority)
         IN IF matching = {} THEN rest
            ELSE {<<<<number, p>>>> \o r : p \in matching, r \in rest}

\* tree_issues.sort(key=lambda x: x[1].count('.')): stable, parents first
SortByDepth(tree_issues) ==
    LET RECURSIVE FromDepth(_)
        FromDepth(d) ==
            IF \A k \in 1 .. Len(tree_issues) : Len(tree_issues[k][2]) < d THEN <<>>
            ELSE LET AtDepth(e) == Len(e[2]) = d
                 IN SelectSeq(tree_issues, AtDepth) \o FromDepth(d + 1)
    IN FromDepth(1)

\* sync_tree_statuses: the listing, the issues of the tree sorted by depth,
\* then the loop; a failed listing is caught and printed
sync_tree_statuses(root_priority) ==
    /\ CanCall /\ hist = <<>>
    /\ budget' = budget - 1 /\ UNCHANGED eco
    /\ LET call == [Call("sync_tree_statuses", 0, 0, 0, <<>>)
                       EXCEPT !.root_priority = root_priority]
       IN \/ /\ NoFault
             /\ \E tree_issues \in TreeIssuesFrom(1, root_priority) :
                   Continue([call EXCEPT !.todo = SortByDepth(tree_issues)])
          \/ /\ Fault
             /\ Finish(call, "returned", "None", TRUE)
    /\ UNCHANGED <<prio, stage>>

\* get_parent_priority, then find_issue_by_priority: gh issue list --label
\* priority-<parent> --limit 1, the newest issue carrying that label; None
\* when there is none or the request fails
find_issue_by_priority ==
    /\ op.kind \in TreeKinds /\ op.pc = "find_parent"
    /\ IF ~HasParentText(op.new_priority) THEN Continue(op) /\ NoFault
       ELSE \/ /\ NoFault
               /\ LET parent_priority == get_parent_priority(op.new_priority)
                      found == {i \in Items : parent_priority \in prio[i]}
                  IN IF found = {} THEN Continue(op)
                     ELSE /\ op' = [op EXCEPT !.target_issue_id =
                                                  CHOOSE i \in found : \A j \in found : j <= i,
                                              !.pc = "parent_status"]
                          /\ UNCHANGED hist
            \/ /\ Fault
               /\ Continue(op)
    /\ UNCHANGED <<prio, stage, budget, eco>>

\* get_issue_status of the parent: its first status label (the order of the
\* labels is the store's choice), 'backlog' when it has none or the request
\* fails; set_issue_status of the issue follows
get_issue_status ==
    /\ op.kind \in TreeKinds /\ op.pc = "parent_status"
    /\ \/ /\ NoFault
          /\ \E parent_status \in (IF stage[op.target_issue_id] = {} THEN {"backlog"}
                                    ELSE stage[op.target_issue_id]) :
                op' = [op EXCEPT !.status = parent_status, !.pc = "create_status_label"]
       \/ /\ Fault
          /\ op' = [op EXCEPT !.status = "backlog", !.pc = "create_status_label"]
    /\ UNCHANGED <<prio, stage, hist, budget, eco>>

\* ------------------------------------------- sync_slot_map_to_priorities
\* (variant: the lanes in the order of the workflow)
lane_order_Workflow ==
    <<"backlog", "plan", "build", "measure", "learn", "blocked", "archived">>

lane_order == <<"learn", "measure", "build", "plan", "backlog", "blocked", "archived">>

\* parentSlot = None
NoParent == -1

\* A slot map is a function from some lanes to sequences of entries
\* [issueId, parentSlot]; slot indices are zero-based as in the source.
RECURSIVE FlattenFrom(_, _)
FlattenFrom(slot_map, k) ==
    IF k > Len(lane_order) THEN <<>>
    ELSE LET lane == lane_order[k]
             here == IF lane \in DOMAIN slot_map
                     THEN [j \in 1 .. Len(slot_map[lane]) |->
                              [issueId |-> slot_map[lane][j].issueId,
                               parentSlot |-> slot_map[lane][j].parentSlot,
                               lane |-> lane,
                               slotIndex |-> j - 1]]
                     ELSE <<>>
         IN here \o FlattenFrom(slot_map, k + 1)

slot_issues_of(slot_map) == FlattenFrom(slot_map, 1)

\* lane_parent_map[lane_slot]: the entries (indices into slot_issues) whose
\* parentSlot names that slot of their lane, in flattened order
lane_parent_map(slot_issues, lane, slot) ==
    LET IsChild(e) == /\ slot_issues[e].parentSlot # NoParent
                      /\ slot_issues[e].lane = lane
                      /\ slot_issues[e].parentSlot = slot
    IN SelectSeq([e \in 1 .. Len(slot_issues) |-> e], IsChild)

\* p.startswith(f"{parent_priority}.")
StartsWithDot(p, parent_priority) ==
    /\ Len(p) > Len(parent_priority)
    /\ \A k \in 1 .. Len(parent_priority) : p[k] = parent_priority[k]

\* (variant: global_counter is not advanced after a root)
RECURSIVE assign_priority_CounterNotAdvanced(_, _, _, _)
assign_priority_CounterNotAdvanced(stack, priority_map, global_counter, slot_issues) ==
    IF stack = <<>> THEN priority_map
    ELSE
        LET issue == slot_issues[Head(stack).entry]
            parent_priority == Head(stack).parent_priority
            existing_children == {id \in DOMAIN priority_map :
                                     StartsWithDot(priority_map[id], parent_priority)}
            priority == IF parent_priority = <<>>
                        THEN <<str(global_counter)>>
                        ELSE Append(parent_priority, str(Cardinality(existing_children) + 1))
            children == lane_parent_map(slot_issues, issue.lane, issue.slotIndex)
            calls == [k \in 1 .. Len(children) |->
                         [entry |-> children[k], parent_priority |-> priority]]
        IN assign_priority_CounterNotAdvanced(calls \o Tail(stack),
                           (issue.issueId :> priority) @@ priority_map,
                           global_counter, slot_issues)

\* assign_priority over a stack of pending calls [entry, parent_priority]
\* (parent_priority <<>> for None); returns priority_map
RECURSIVE assign_priority(_, _, _, _)
assign_priority(stack, priority_map, global_counter, slot_issues) ==
    IF stack = <<>> THEN priority_map
    ELSE
        LET issue == slot_issues[Head(stack).entry]
            parent_priority == Head(stack).parent_priority
            existing_children == {id \in DOMAIN priority_map :
                                     StartsWithDot(priority_map[id], parent_priority)}
            priority == IF parent_priority = <<>>
                        THEN <<str(global_counter)>>
                        ELSE Append(parent_priority, str(Cardinality(existing_children) + 1))
            children == lane_parent_map(slot_issues, issue.lane, issue.slotIndex)
            calls == [k \in 1 .. Len(children) |->
                         [entry |-> children[k], parent_priority |-> priority]]
        IN assign_priority(calls \o Tail(stack),
                           (issue.issueId :> priority) @@ priority_map,
                           IF parent_priority = <<>> THEN global_counter + 1
                           ELSE global_counter,
                           slot_issues)

\* the writes priority_map[issue['issueId']] = priority of assign_priority,
\* in the order they are made, each with the entry it is made for
RECURSIVE assign_priority_writes(_, _, _, _)
assign_priority_writes(stack, priority_map, global_counter, slot_issues) ==
    IF stack = <<>> THEN <<>>
    ELSE
        LET issue == slot_issues[Head(stack).entry]
            parent_priority == Head(stack).parent_priority
            existing_children == {id \in DOMAIN priority_map :
                                     StartsWithDot(priority_map[id], parent_priority)}
            priority == IF parent_priority = <<>>
                        THEN <<str(global_counter)>>
                        ELSE Append(parent_priority, str(Cardinality(existing_children) + 1))
            children == lane_parent_map(slot_issues, issue.lane, issue.slotIndex)
            calls == [k \in 1 .. Len(children) |->
                         [entry |-> children[k], parent_priority |-> priority]]
        IN <<[entry |-> Head(stack).entry, issueId |-> issue.issueId,
              priority |-> priority]>>
           \o assign_priority_writes(calls \o Tail(stack),
                                     (issue.issueId :> priority) @@ priority_map,
                                     IF parent_priority = <<>> THEN global_counter + 1
                                     ELSE global_counter,
                                     slot_issues)

\* the writes of the root loop
priority_writes_of(slot_issues) ==
    LET IsRoot(e) == slot_issues[e].parentSlot = NoParent
        root_issues == SelectSeq([e \in 1 .. Len(slot_issues) |-> e], IsRoot)
    IN assign_priority_writes([k \in 1 .. Len(root_issues) |->
                                  [entry |-> root_issues[k], parent_priority |-> <<>>]],
                              <<>>, 1, slot_issues)

\* the priority_map the root loop builds
priority_map_of(slot_issues) ==
    LET IsRoot(e) == slot_issues[e].parentSlot = NoParent
        root_issues == SelectSeq([e \in 1 .. Len(slot_issues) |-> e], IsRoot)
    IN assign_priority([k \in 1 .. Len(root_issues) |->
                           [entry |-> root_issues[k], parent_priority |-> <<>>]],
                       <<>>, 1, slot_issues)

SlotIds(slot_issues) == {slot_issues[e].issueId : e \in 1 .. Len(slot_issues)}

\* status_updates: the lane of the last entry of each issue
status_updates_of(slot_issues) ==
    [id \in SlotIds(slot_issues) |->
        LET last == CHOOSE e \in 1 .. Len(slot_issues) :
                        /\ slot_issues[e].issueId = id
                        /\ \A f \in (e + 1) .. Len(slot_issues) : slot_issues[f].issueId # id
        IN slot_issues[last].lane]

\* one command of a batch
Command(kind, issue, text, status) ==
    [kind |-> kind, issue |-> issue, text |-> text, status |-> status]

\* the removals batch_update_priorities_and_statuses collects from the
\* issues whose labels it could read
removal_commands_of(readable) ==
    UNION {{Command("remove_priority", i, t, "") : t \in prio[i]}
               \cup {Command("remove_status", i, <<>>, st) : st \in stage[i]} :
           i \in readable}
\* (variant: issues that already carry a priority label are left alone)
priority_commands_of_OnlyUnprioritized(priority_updates) ==
    {Command("add_priority", i, priority_updates[i], "") :
        i \in {j \in DOMAIN priority_updates : j \in Items => prio[j] = {}}}

priority_commands_of(priority_updates) ==
    {Command("add_priority", i, priority_updates[i], "") : i \in DOMAIN priority_updates}
\* (variant: only the issues with a root key are given their stage)
status_commands_of_RootsOnly(status_updates) ==
    {Command("add_status", i, <<>>, status_updates[i]) :
        i \in {j \in DOMAIN status_updates : Len(op.priority_updates[j]) = 1}}

status_commands_of(status_updates) ==
    {Command("add_status", i, <<>>, status_updates[i]) : i \in DOMAIN status_updates}

\* Slot maps a client sends: the issues of ids in slot order, the first k of
\* them in lane "backlog" and the others in lane "learn", with parent slots
\* laid out per lane in one of six shapes
Shapes == {"flat", "chain", "star", "orphan", "self", "cycle"}
ParentSlotOf(shape, j, n) ==
    IF shape = "cycle" THEN (j + 1) % n
    ELSE IF shape = "chain" THEN (IF j = 0 THEN NoParent ELSE j - 1)
    ELSE IF shape = "star" THEN (IF j = 0 THEN NoParent ELSE 0)
    ELSE IF shape = "orphan" THEN (IF j = 0 THEN n ELSE NoParent)
    ELSE IF shape = "self" THEN (IF j = n - 1 THEN j ELSE NoParent)
    ELSE NoParent
LaneOf(ids, shape) ==
    [j \in 1 .. Len(ids) |->
        [issueId |-> ids[j], parentSlot |-> ParentSlotOf(shape, j - 1, Len(ids))]]
SlotMapOf(ids, k, shape) ==
    IF k = 0 THEN "learn" :> LaneOf(ids, shape)
    ELSE ("backlog" :> LaneOf(SubSeq(ids, 1, k), shape))
            @@ ("learn" :> LaneOf(SubSeq(ids, k + 1, Len(ids)), shape))
SlotMaps ==
    {SlotMapOf(ids, k, shape) :
        ids \in {ListedIssues, SubSeq(ListedIssues, 1, NItems - 1)},
        k \in {0, 1}, shape \in Shapes}

\* the batches still to run: those with no command are skipped
RECURSIVE SkipEmpty(_)
SkipEmpty(todo) ==
    IF todo # <<>> /\ Head(todo).commands = {} THEN SkipEmpty(Tail(todo)) ELSE todo

\* the commands of the batches of todo
RECURSIVE CommandsIn(_)
CommandsIn(todo) ==
    IF todo = <<>> THEN {} ELSE Head(todo).commands \cup CommandsIn(Tail(todo))

\* (variant: the commands of all the batches are joined into one shell command)
Advance_OneBatch(o, todo) ==
    LET rest == SkipEmpty(todo)
    IN IF rest = <<>>
       THEN Finish(o, "returned", "True", TRUE)
       ELSE /\ op' = [o EXCEPT !.pc = "batch", !.phase = Head(rest).name,
                               !.pending = CommandsIn(rest), !.todo = <<>>]
            /\ UNCHANGED hist

\* batch_update_priorities_and_statuses moving on to its next batch, or
\* returning True after the last one
Advance(o, todo) ==
    LET rest == SkipEmpty(todo)
    IN IF rest = <<>>
       THEN Finish(o, "returned", "True", TRUE)
       ELSE /\ op' = [o EXCEPT !.pc = "batch", !.phase = Head(rest).name,
                               !.pending = Head(rest).commands, !.todo = Tail(rest)]
            /\ UNCHANGED hist

\* (variant: an entry without a key is left out of the update maps)
SyncRun_SkipsUnassigned(slot_map, before) ==
    /\ LET slot_issues == slot_issues_of(slot_map)
           priority_map == priority_map_of(slot_issues)
           call == [Call("sync", 0, 0, 0, <<>>) EXCEPT !.slot_issues = slot_issues]
           Prepare(all_repo_issues) ==
               /\ op' = [call EXCEPT !.pc = "scan",
                                     !.all_repo_issues = all_repo_issues,
                                     !.priority_updates = priority_map,
                                     !.status_updates =
                                         [id \in DOMAIN priority_map |->
                                             status_updates_of(slot_issues)[id]]]
               /\ hist' = before
       IN \/ NoFault /\ Prepare(Items)
          \/ Fault /\ Prepare({})
          \/ Fault /\ hist' = Append(before, Done(call, "raised", "JSONDecodeError", FALSE))
                   /\ op' = Idle
    /\ budget' = budget - 1 /\ UNCHANGED eco
    /\ UNCHANGED <<prio, stage>>

\* sync_slot_map_to_priorities up to its call of
\* batch_update_priorities_and_statuses: the listing of all issues, the key
\* assignment and the update maps (the label classes it creates on the way
\* are not part of the state)
SyncRun(slot_map, before) ==
    /\ LET slot_issues == slot_issues_of(slot_map)
           priority_map == priority_map_of(slot_issues)
           call == [Call("sync", 0, 0, 0, <<>>) EXCEPT !.slot_issues = slot_issues]
           Prepare(all_repo_issues) ==
               IF SlotIds(slot_issues) \subseteq DOMAIN priority_map
               THEN /\ op' = [call EXCEPT !.pc = "scan",
                                          !.all_repo_issues = all_repo_issues,
                                          !.priority_updates = priority_map,
                                          !.status_updates = status_updates_of(slot_issues)]
                    /\ hist' = before
               ELSE hist' = Append(before, Done(call, "returned", "False", FALSE)) /\ op' = Idle
       IN \/ NoFault /\ Prepare(Items)
          \/ Fault /\ Prepare({})
          \/ Fault /\ hist' = Append(before, Done(call, "raised", "JSONDecodeError", FALSE))
                   /\ op' = Idle
    /\ budget' = budget - 1 /\ UNCHANGED eco
    /\ UNCHANGED <<prio, stage>>

sync_slot_map_to_priorities(slot_map) == CanCall /\ SyncRun(slot_map, <<>>)

\* sync_slot_map_to_priorities called again with the slot map of the
\* reconciliation that has just returned
sync_slot_map_to_priorities_again(slot_map) ==
    /\ op.kind = "idle" /\ budget > 0 /\ Len(hist) = 1
    /\ hist[1].kind = "sync" /\ hist[1].outcome = "returned"
    /\ hist[1].slot_issues = slot_issues_of(slot_map)
    /\ SyncRun(slot_map, hist)

\* (variant: a label read that fails ends the call with False)
ScanFrom_AbortsOnFailedRead(issues) ==
    /\ op.kind = "sync" /\ op.pc = "scan"
    /\ \E readable \in SUBSET issues :
          LET failed == Cardinality(issues \ readable)
          IN /\ failed <= faults
             /\ faults' = faults - failed
             /\ IF failed > 0
                THEN Finish(op, "returned", "False", FALSE)
                ELSE Advance(op, <<[name |-> "Removing old labels",
                                    commands |-> removal_commands_of(readable)],
                                   [name |-> "Adding priority labels",
                                    commands |-> priority_commands_of(op.priority_updates)],
                                   [name |-> "Adding status labels",
                                    commands |-> status_commands_of(op.status_updates)]>>)
    /\ UNCHANGED <<prio, stage, budget, eco>>

\* the label reads of batch_update_priorities_and_statuses, one per listed
\* issue; an issue whose read fails or is not JSON contributes no removal
ScanFrom(issues) ==
    /\ op.kind = "sync" /\ op.pc = "scan"
    /\ \E readable \in SUBSET issues :
          LET failed == Cardinality(issues \ readable)
          IN /\ failed <= faults
             /\ faults' = faults - failed
             /\ Advance(op, <<[name |-> "Removing old labels",
                               commands |-> removal_commands_of(readable)],
                              [name |-> "Adding priority labels",
                               commands |-> priority_commands_of(op.priority_updates)],
                              [name |-> "Adding status labels",
                               commands |-> status_commands_of(op.status_updates)]>>)
    /\ UNCHANGED <<prio, stage, budget, eco>>

\* (variant: only the issues of the slot map are scanned)
ScanLabels_SlotMapOnly == ScanFrom(op.all_repo_issues \cap SlotIds(op.slot_issues))

ScanLabels == ScanFrom(op.all_repo_issues)

\* the effect of one gh issue edit of a batch
Apply(c) ==
    /\ prio' = [prio EXCEPT ![c.issue] =
                    IF c.kind = "remove_priority" THEN @ \ {c.text}
                    ELSE IF c.kind = "add_priority" THEN @ \cup {c.text}
                    ELSE @]
    /\ stage' = [stage EXCEPT ![c.issue] =
                    IF c.kind = "remove_status" THEN @ \ {c.status}
                    ELSE IF c.kind = "add_status" THEN @ \cup {c.status}
                    ELSE @]

\* one command of the running batch ("c1 & c2 & ... & wait"): the commands
\* of a batch run concurrently, each succeeds or fails on its own
RunCommand ==
    /\ op.kind = "sync" /\ op.pc = "batch"
    /\ \E c \in op.pending :
          \/ /\ op' = [op EXCEPT !.pending = @ \ {c}, !.issued = @ \cup {c}]
             /\ Apply(c) /\ NoFault
          \/ /\ op' = [op EXCEPT !.pending = @ \ {c}, !.issued = @ \cup {c},
                                  !.failed = @ \cup {c}]
             /\ UNCHANGED <<prio, stage>> /\ Fault
    /\ UNCHANGED <<hist, budget, eco>>

\* (variant: the return code of the batch is not looked at)
JoinPhase_IgnoresReturnCode ==
    /\ op.kind = "sync" /\ op.pc = "batch" /\ op.pending = {}
    /\ \/ NoFault /\ Advance(op, op.todo)
       \/ Fault /\ Advance([op EXCEPT !.failed_phase = op.phase], op.todo)
    /\ UNCHANGED <<prio, stage, budget, eco>>

\* the batch has ended: return code 0 of the shell (the status of "wait")
\* moves on to the next batch, any other return code returns False
JoinPhase ==
    /\ op.kind = "sync" /\ op.pc = "batch" /\ op.pending = {}
    /\ \/ NoFault /\ Advance(op, op.todo)
       \/ Fault /\ Finish([op EXCEPT !.failed_phase = op.phase],
                           "returned", "False", FALSE)
    /\ UNCHANGED <<prio, stage, budget, eco>>

\* serve.call_tool: an exception of the operation is re-raised as ValueError,
\* a returned value is sent back as text
call_tool(outcome) == IF outcome = "raised" THEN "raised" ELSE "returned"

\* the caller gives up on the call in flight; no further request is issued
Abandon ==
    /\ op.kind # "idle"
    /\ Finish(op, "abandoned", "none", FALSE)
    /\ UNCHANGED <<prio, stage, budget, eco, faults>>

\* the result of the finished call is sent back; the server keeps nothing
\* of it
Reply ==
    /\ op.kind = "idle" /\ hist # <<>>
    /\ hist' = <<>>
    /\ UNCHANGED <<prio, stage, op, budget, eco, faults>>

Next ==
    \/ \E x, y \in Ids : move_issue_above(x, y)
    \/ \E x, y \in Ids : move_issue_below(x, y)
    \/ \E x, y, z \in Ids : move_issue_between(x, y, z)
    \/ \E x \in Ids, p \in SetTexts : set_issue_priority(x, p)
    \/ create_priority_label_if_needed
    \/ ViewLabels
    \/ RemoveLabel
    \/ AddLabel
    \/ \E x \in Ids, st \in StatusInputs : set_issue_status(x, st)
    \/ create_status_label_if_needed
    \/ AddStatusLabel
    \/ ViewStatusLabels
    \/ RemoveStatusLabel
    \/ Abandon
    \/ Reply

Spec == Init /\ [][Next]_vars

\* move_issue_above and move_issue_below called one after the other
PairInit == InitStore /\ budget = PairOps /\ eco = NoFile /\ faults = MaxFaults

PairNext ==
    \/ \E x, y \in Items : move_issue_above(x, y)
    \/ \E x, y \in Items : move_issue_below(x, y)
    \/ create_priority_label_if_needed
    \/ ViewLabels
    \/ RemoveLabel
    \/ AddLabel
    \/ Reply

PairSpec == PairInit /\ [][PairNext]_vars

\* one full reconciliation, from its call on any of the boards to its result
SyncInit == InitStore /\ budget = MaxOps /\ eco = NoFile /\ faults = MaxFaults

SyncNext ==
    \/ \E slot_map \in SlotMaps : sync_slot_map_to_priorities(slot_map)
    \/ ScanLabels
    \/ RunCommand
    \/ JoinPhase

SyncSpec == SyncInit /\ [][SyncNext]_vars

\* a reconciliation run twice in a row with the same slot map, no store
\* request failing
TwiceInit == InitStore /\ budget = PairOps /\ eco = NoFile /\ faults = 0

TwiceNext ==
    \/ \E slot_map \in SlotMaps : sync_slot_map_to_priorities(slot_map)
    \/ \E slot_map \in SlotMaps : sync_slot_map_to_priorities_again(slot_map)
    \/ ScanLabels
    \/ RunCommand
    \/ JoinPhase

TwiceSpec == TwiceInit /\ [][TwiceNext]_vars

\* the two status inheritance functions, on boards with trees in them and
\* on issues that carry none, one or two status labels
ChainBoard == [i \in Items |-> {[k \in 1 .. i |-> 1]}]
WideBoard == [i \in Items |-> IF i = 1 THEN {<<1>>}
                               ELSE IF i = 2 THEN {<<10>>}
                               ELSE {<<10, i - 2>>}]
AliasBoard == [i \in Items |-> IF i = 1 THEN {<<HIGH>>} ELSE {<<1, i - 1>>}]
TreeBoards == {FlatBoard, TreeBoard, DeepBoard, ChainBoard, WideBoard, AliasBoard,
               LegacyBoard, DoubleBoard}

MixedStage == [i \in Items |-> IF i = 1 THEN {"build", "blocked"} ELSE {"plan"}]
SplitStage == [i \in Items |-> IF i = 2 THEN {"build"} ELSE {"plan"}]
StageBoards == {InitStage, MixedStage, SplitStage}

TreeInit ==
    /\ prio \in TreeBoards
    /\ stage \in StageBoards
    /\ op = Idle
    /\ hist = <<>>
    /\ budget = MaxOps /\ eco = NoFile
    /\ faults = MaxFaults

TreeNext ==
    \/ \E x \in Ids, p \in InheritTexts : set_issue_tree_priority_with_inheritance(x, p)
    \/ \E r \in RootTexts : sync_tree_statuses(r)
    \/ create_priority_label_if_needed
    \/ ViewLabels
    \/ RemoveLabel
    \/ AddLabel
    \/ find_issue_by_priority
    \/ get_issue_status
    \/ create_status_label_if_needed
    \/ AddStatusLabel
    \/ ViewStatusLabels
    \/ RemoveStatusLabel
    \/ Reply

TreeSpec == TreeInit /\ [][TreeNext]_vars

\* ----------------------------------- calculate_insertion_priority on its own
\* Priority texts of the issues of a list
CalcTexts == {<<0>>, <<1>>, <<2>>, <<3>>, <<1, 1>>, <<1, 2>>, <<1, 1, 5>>,
              <<HIGH>>, <<JUNK>>, <<PadBase + 2>>, <<HugeBase + 1>>, <<HugeBase + 1, 1>>}

\* the lists get_all_prioritized_issues can hand over: sorted by parsed key
IsOrdered(texts) ==
    \A k \in 1 .. (Len(texts) - 1) :
       ~ListLess(parse_tree_priority(texts[k + 1]), parse_tree_priority(texts[k]))

OrderedLists ==
    {[k \in 1 .. Len(texts) |->
         [number |-> k, priority |-> texts[k],
          priority_parsed |-> parse_tree_priority(texts[k])]] :
       texts \in {t \in UNION {[1 .. n -> CalcTexts] : n \in 0 .. MaxLen} : IsOrdered(t)}}

Positions == -1 .. (MaxLen + 1)

CalcInit ==
    /\ prio = NoLabels /\ stage = NoLabels
    /\ hist = <<>> /\ budget = 0 /\ eco = NoFile /\ faults = 0
    /\ op \in {[Idle EXCEPT !.kind = "calculate_insertion_priority", !.pc = "call",
                            !.listing = issues, !.position = insert_position] :
                  issues \in OrderedLists, insert_position \in Positions}

\* one call of calculate_insertion_priority(issues, insert_position): the
\* text it returns, or the exception it raises
CallCalculateInsertionPriority ==
    /\ op.kind = "calculate_insertion_priority" /\ op.pc = "call"
    /\ LET new_priority == calculate_insertion_priority(op.listing, op.position)
       IN IF new_priority = <<OverflowError>>
          THEN Finish(op, "raised", "OverflowError", FALSE)
          ELSE Finish([op EXCEPT !.new_priority = new_priority], "returned", "text", TRUE)
    /\ UNCHANGED <<prio, stage, budget, eco, faults>>

CalcNext == CallCalculateInsertionPriority

CalcSpec == CalcInit /\ [][CalcNext]_vars

\* ------------------------------------------------ parse_tree_priority on its own
\* the parts a priority text is made of: numerals (canonical, zero-padded,
\* negative, huge, overlong), the three aliases, another word, the empty part
Parts == {0, 1, 2, PadBase + 1, -1, HugeBase + 1, OverlongBase + 1,
          HIGH, MEDIUM, LOW, JUNK, EMPTY}

ParseTexts == UNION {[1 .. n -> Parts] : n \in 1 .. MaxLen}

ParseInit ==
    /\ prio = NoLabels /\ stage = NoLabels
    /\ hist = <<>> /\ budget = 0 /\ eco = NoFile /\ faults = 0
    /\ op \in {[Idle EXCEPT !.kind = "parse_tree_priority", !.pc = "call",
                            !.new_priority = priority_str] : priority_str \in ParseTexts}

\* (variant: only the root of the key is rendered)
to_text_RootOnly(key) == <<str(key[1])>>

\* '.'.join(map(str, key))
to_text(key) == [k \in 1 .. Len(key) |-> str(key[k])]

\* one call of parse_tree_priority(priority_str); the key is the result
CallParseTreePriority ==
    /\ op.kind = "parse_tree_priority" /\ op.pc = "call"
    /\ Finish(op, "returned", parse_tree_priority(op.new_priority), TRUE)
    /\ UNCHANGED <<prio, stage, budget, eco, faults>>

\* the key of the call before is rendered and handed to parse_tree_priority
\* again
Render ==
    /\ op.kind = "idle" /\ Len(hist) = 1 /\ hist[1].kind = "parse_tree_priority"
    /\ op' = [Idle EXCEPT !.kind = "parse_tree_priority", !.pc = "call",
                          !.new_priority = to_text(hist[1].result)]
    /\ UNCHANGED <<prio, stage, hist, budget, eco, faults>>

ParseNext == CallParseTreePriority \/ Render

ParseSpec == ParseInit /\ [][ParseNext]_vars

\* ------------------------- the sort of get_all_prioritized_issues on its own
\* Priority texts of the issues to sort ('none' for an issue without label)
SortTexts == {<<1>>, <<2>>, <<10>>, <<1, 1>>, <<1, 2>>, <<1, 9>>, <<1, 10>>,
              <<1, 2, 1>>, <<HIGH>>, <<JUNK>>, <<NONE>>}

\* prioritized_issues before the sort, in the order of the store's listing
UnsortedLists ==
    {[k \in 1 .. Len(texts) |->
         [number |-> k, priority |-> texts[k],
          priority_parsed |-> parse_tree_priority(texts[k])]] :
       texts \in UNION {[1 .. n -> SortTexts] : n \in 0 .. MaxLen}}

SortInit ==
    /\ prio = NoLabels /\ stage = NoLabels
    /\ hist = <<>> /\ budget = 0 /\ eco = NoFile /\ faults = 0
    /\ op \in {[Idle EXCEPT !.kind = "sort", !.pc = "call", !.listing = issues] :
                  issues \in UnsortedLists}

\* prioritized_issues.sort(key=lambda x: x['priority_parsed'])
CallSort ==
    /\ op.kind = "sort" /\ op.pc = "call"
    /\ Finish([op EXCEPT !.listing = SortedBy(op.listing)], "returned", "list", TRUE)
    /\ UNCHANGED <<prio, stage, budget, eco, faults>>

SortNext == CallSort

SortSpec == SortInit /\ [][SortNext]_vars

\* set_issue_status to each of the seven stages, from each stage and from none
StageBoardsOfFirst ==
    {[InitStage EXCEPT ![1] = S] : S \in {{}} \cup {{st} : st \in Stages}}

StatusInit ==
    /\ prio = FlatBoard
    /\ stage \in StageBoardsOfFirst
    /\ op = Idle
    /\ hist = <<>>
    /\ budget = MaxOps /\ eco = NoFile
    /\ faults = MaxFaults

StatusNext ==
    \/ \E x \in Ids, st \in Stages : set_issue_status(x, st)
    \/ create_status_label_if_needed
    \/ AddStatusLabel
    \/ ViewStatusLabels
    \/ RemoveStatusLabel
    \/ Reply

StatusSpec == StatusInit /\ [][StatusNext]_vars

\* ------------------- the key assignment of sync_slot_map_to_priorities alone
\* slot maps of one lane with up to NItems + 1 entries of distinct issues,
\* each entry with any parent slot of the lane or none
LaneEntries ==
    UNION {[1 .. n -> {NoParent} \cup (0 .. n - 1)] : n \in 1 .. NItems + 1}

TreeSlotMaps ==
    {"learn" :> [j \in 1 .. Len(parents) |->
                    [issueId |-> j, parentSlot |-> parents[j]]] : parents \in LaneEntries}

\* slot maps of the lanes "backlog" and "learn" with up to two entries each,
\* an issue possibly entered more than once
LaneLists ==
    UNION {[1 .. n -> [issueId : Items, parentSlot : {NoParent, 0}]] : n \in 0 .. 2}

LaneSlotMaps ==
    {("backlog" :> b) @@ ("learn" :> l) : b \in LaneLists, l \in LaneLists}

AssignInit ==
    /\ prio = NoLabels /\ stage = NoLabels
    /\ hist = <<>> /\ budget = 0 /\ eco = NoFile /\ faults = 0
    /\ op \in {[Idle EXCEPT !.kind = "assign_priority", !.pc = "call",
                            !.slot_issues = slot_issues_of(slot_map)] :
                   slot_map \in TreeSlotMaps \cup LaneSlotMaps}

\* the root loop of sync_slot_map_to_priorities; the priority_map is the
\* result
CallAssignPriority ==
    /\ op.kind = "assign_priority" /\ op.pc = "call"
    /\ Finish([op EXCEPT !.listing = priority_writes_of(op.slot_issues)],
              "returned", priority_map_of(op.slot_issues), TRUE)
    /\ UNCHANGED <<prio, stage, budget, eco, faults>>

AssignNext == CallAssignPriority

AssignSpec == AssignInit /\ [][AssignNext]_vars

\* ------------------------------------------- BMLAgentWrapper.execute_task
\* what the wrapped agent function may return
AgentResults == {"completed", "partial"}

Request(fn, arg) == [fn |-> fn, arg |-> arg]

\* move_issue_to_next_status(repo, issue_number, status) and
\* move_issue_to_blocked(repo, issue_number, reason) set the stage of the
\* issue: the issue then carries that stage alone, or, the store request
\* failing or the issue not existing, the stages it had; the failure is
\* reported in the value returned, which execute_task does not look at
move_issue_to_next_status(issue_number, status) ==
    \/ /\ issue_number \in Items /\ NoFault
       /\ stage' = [stage EXCEPT ![issue_number] = {status}]
    \/ /\ issue_number \in Items /\ Fault
       /\ UNCHANGED stage
    \/ /\ issue_number \notin Items /\ NoFault
       /\ UNCHANGED stage

move_issue_to_blocked(issue_number) == move_issue_to_next_status(issue_number, "blocked")

TaskInit ==
    /\ prio = FlatBoard
    /\ stage \in StageBoards
    /\ op = Idle
    /\ hist = <<>>
    /\ budget = MaxOps /\ eco = NoFile
    /\ faults = MaxFaults

execute_task(issue_number) ==
    /\ CanCall
    /\ op' = [Call("execute_task", issue_number, 0, 0, <<>>) EXCEPT !.pc = "to_build"]
    /\ hist' = <<>>
    /\ budget' = budget - 1 /\ UNCHANGED eco
    /\ UNCHANGED <<prio, stage, faults>>

\* move_issue_to_next_status(self.repo, issue_number, "build")
MoveToBuild ==
    /\ op.kind = "execute_task" /\ op.pc = "to_build"
    /\ move_issue_to_next_status(op.issue_id, "build")
    /\ op' = [op EXCEPT !.pc = "agent",
                        !.calls = Append(@, Request("move_issue_to_next_status", "build"))]
    /\ UNCHANGED <<prio, hist, budget, eco>>

\* (variant: an exception of the agent is swallowed)
RunAgent_SwallowsException ==
    /\ op.kind = "execute_task" /\ op.pc = "agent"
    /\ \/ \E result \in AgentResults :
             op' = [op EXCEPT !.pc = "to_measure", !.agent_result = result,
                              !.calls = Append(@, Request("agent_execute_func", "returned"))]
       \/ op' = [op EXCEPT !.pc = "to_measure",
                           !.calls = Append(@, Request("agent_execute_func", "raised"))]
    /\ UNCHANGED <<prio, stage, hist, budget, eco, faults>>

\* result = self.agent_execute_func(task_description): the agent returns a
\* result or raises
RunAgent ==
    /\ op.kind = "execute_task" /\ op.pc = "agent"
    /\ \/ \E result \in AgentResults :
             op' = [op EXCEPT !.pc = "to_measure", !.agent_result = result,
                              !.calls = Append(@, Request("agent_execute_func", "returned"))]
       \/ op' = [op EXCEPT !.pc = "to_blocked",
                           !.calls = Append(@, Request("agent_execute_func", "raised"))]
    /\ UNCHANGED <<prio, stage, hist, budget, eco, faults>>

\* move_issue_to_next_status(self.repo, issue_number, "measure"); return result
MoveToMeasure ==
    /\ op.kind = "execute_task" /\ op.pc = "to_measure"
    /\ move_issue_to_next_status(op.issue_id, "measure")
    /\ Finish([op EXCEPT !.calls = Append(@, Request("move_issue_to_next_status", "measure"))],
              "returned", op.agent_result, TRUE)
    /\ UNCHANGED <<prio, budget, eco>>

\* except Exception: move_issue_to_blocked(...); raise
MoveToBlocked ==
    /\ op.kind = "execute_task" /\ op.pc = "to_blocked"
    /\ move_issue_to_blocked(op.issue_id)
    /\ Finish([op EXCEPT !.calls = Append(@, Request("move_issue_to_blocked", "blocked"))],
              "raised", "Exception", FALSE)
    /\ UNCHANGED <<prio, budget, eco>>

TaskNext ==
    \/ \E x \in Ids : execute_task(x)
    \/ MoveToBuild
    \/ RunAgent
    \/ MoveToMeasure
    \/ MoveToBlocked
    \/ Reply

TaskSpec == TaskInit /\ [][TaskNext]_vars

\* ------------------------------------------------- the ecosystem.json file
\* A configuration is the function from its section names to their repos
\* lists; the other keys of a section and of the file are written once and
\* never read by the operations below.
RepoNames == {"owner/eco", "eco"}
EcosystemTypes == {"ecosystem_meta", "personal_meta"}

\* initial_config of create_ecosystem_repo
initial_config(ecosystem_type) ==
    IF ecosystem_type = "personal_meta" THEN "Active Projects" :> <<>>
    ELSE "Core Libraries" :> <<>>

\* repo_name.split('/')[1] raises IndexError for a name without a slash
HasOwner(repo_name) == repo_name = "owner/eco"

TargetRepos == {"owner/a", "owner/b"}
Sections == {"Core Libraries", "Tools"}

\* the files the operations may find: none, the one create_ecosystem_repo
\* writes, and files add_repo_to_ecosystem has written
EcoFiles ==
    {NoFile,
     initial_config("ecosystem_meta"),
     "Core Libraries" :> <<"owner/a">>,
     ("Core Libraries" :> <<"owner/b">>) @@ ("Tools" :> <<"owner/a">>)}

EcoInit ==
    /\ prio = NoLabels /\ stage = NoLabels
    /\ op = Idle /\ hist = <<>>
    /\ budget = PairOps /\ faults = 0
    /\ eco \in EcoFiles

create_ecosystem_repo(repo_name, ecosystem_type) ==
    /\ CanCall
    /\ op' = [Call("create_ecosystem_repo", 0, 0, 0, <<>>)
                 EXCEPT !.pc = "create_repo", !.repo_name = repo_name,
                        !.ecosystem_type = ecosystem_type]
    /\ hist' = <<>>
    /\ budget' = budget - 1 /\ UNCHANGED eco
    /\ UNCHANGED <<prio, stage, faults>>

\* create_repo_with_type, then name = repo_name.split('/')[1]: a result
\* with the mark of failure in it (the repository was not created, or the
\* workflows were not installed) or a name without a slash ends the call
CreateRepo ==
    /\ op.kind = "create_ecosystem_repo" /\ op.pc = "create_repo"
    /\ \/ /\ HasOwner(op.repo_name)
          /\ op' = [op EXCEPT !.pc = "write",
                              !.calls = Append(@, Request("create_repo_with_type", "ok"))]
          /\ UNCHANGED hist
       \/ /\ ~HasOwner(op.repo_name)
          /\ Finish([op EXCEPT !.calls = Append(@, Request("create_repo_with_type", "ok"))],
                    "returned", "IndexError", FALSE)
       \/ \E mark \in {"not created", "workflows not installed"} :
             Finish([op EXCEPT !.calls = Append(@, Request("create_repo_with_type", mark))],
                    "returned", "create_result", FALSE)
    /\ UNCHANGED <<prio, stage, budget, eco, faults>>

\* (variant: the error of the last attempt leaves the function)
WriteConfig_LastErrorPropagates ==
    /\ op.kind = "create_ecosystem_repo" /\ op.pc = "write"
    /\ LET attempt == Len(op.calls) - 1
           Tried(answer) == [op EXCEPT !.calls = Append(@, Request("put_ecosystem_json", answer))]
       IN \/ /\ eco' = initial_config(op.ecosystem_type)
             /\ Finish(Tried("ok"), "returned", "success", TRUE)
          \/ /\ UNCHANGED eco
             /\ IF attempt < 2
                THEN op' = Tried("CalledProcessError") /\ UNCHANGED hist
                ELSE Finish(Tried("CalledProcessError"), "raised", "CalledProcessError", FALSE)
          \/ /\ UNCHANGED eco
             /\ Finish(Tried("Exception"), "returned", "error", FALSE)
    /\ UNCHANGED <<prio, stage, budget, faults>>

\* one pass of the loop "for attempt in range(3)": the PUT succeeds and the
\* loop is left; it fails with CalledProcessError and is tried again unless
\* this was the third attempt; any other exception leaves the loop at once
WriteConfig ==
    /\ op.kind = "create_ecosystem_repo" /\ op.pc = "write"
    /\ LET attempt == Len(op.calls) - 1
           Tried(answer) == [op EXCEPT !.calls = Append(@, Request("put_ecosystem_json", answer))]
       IN \/ /\ eco' = initial_config(op.ecosystem_type)
             /\ Finish(Tried("ok"), "returned", "success", TRUE)
          \/ /\ UNCHANGED eco
             /\ IF attempt < 2
                THEN op' = Tried("CalledProcessError") /\ UNCHANGED hist
                ELSE Finish(Tried("CalledProcessError"), "returned", "GitHub error", FALSE)
          \/ /\ UNCHANGED eco
             /\ Finish(Tried("Exception"), "returned", "error", FALSE)
    /\ UNCHANGED <<prio, stage, budget, faults>>

add_repo_to_ecosystem(target_repo, section) ==
    /\ CanCall
    /\ op' = [Call("add_repo_to_ecosystem", 0, 0, 0, <<>>)
                 EXCEPT !.pc = "get", !.target_repo = target_repo, !.section = section]
    /\ hist' = <<>>
    /\ budget' = budget - 1 /\ UNCHANGED eco
    /\ UNCHANGED <<prio, stage, faults>>

\* current = get_ecosystem_config(...); a file that is missing, or a
\* request that fails, gives a result without success, which is returned
GetConfig ==
    /\ op.kind = "add_repo_to_ecosystem" /\ op.pc = "get"
    /\ \/ /\ eco # NoFile
          /\ op' = [op EXCEPT !.pc = "put", !.config = eco,
                              !.calls = Append(@, Request("get_ecosystem_config", "ok"))]
          /\ UNCHANGED hist
       \/ Finish([op EXCEPT !.calls = Append(@, Request("get_ecosystem_config", "failed"))],
                 "returned", "current", FALSE)
    /\ UNCHANGED <<prio, stage, budget, eco, faults>>

\* (variant: the repository is appended without looking for it)
with_repo_Appended(config, section, target_repo) ==
    LET sections == IF section \in DOMAIN config THEN config
                    ELSE config @@ (section :> <<>>)
    IN [sections EXCEPT ![section] = Append(@, target_repo)]

\* the section is created if it is missing, and the repository appended to
\* its repos if it is not among them
with_repo(config, section, target_repo) ==
    LET sections == IF section \in DOMAIN config THEN config
                    ELSE config @@ (section :> <<>>)
    IN IF \E k \in DOMAIN sections[section] : sections[section][k] = target_repo
       THEN sections
       ELSE [sections EXCEPT ![section] = Append(@, target_repo)]

\* the configuration with the repository in it is written over the file
\* that was read; a failed request gives a result without success
PutConfig ==
    /\ op.kind = "add_repo_to_ecosystem" /\ op.pc = "put"
    /\ LET Tried(answer) == [op EXCEPT !.calls = Append(@, Request("put_ecosystem_json", answer))]
       IN \/ /\ eco' = with_repo(op.config, op.section, op.target_repo)
             /\ Finish(Tried("ok"), "returned", "success", TRUE)
          \/ /\ UNCHANGED eco
             /\ Finish(Tried("failed"), "returned", "error", FALSE)
    /\ UNCHANGED <<prio, stage, budget, faults>>

EcoNext ==
    \/ \E n \in RepoNames, t \in EcosystemTypes : create_ecosystem_repo(n, t)
    \/ CreateRepo
    \/ WriteConfig
    \/ \E r \in TargetRepos, s \in Sections : add_repo_to_ecosystem(r, s)
    \/ GetConfig
    \/ PutConfig
    \/ Reply

EcoSpec == EcoInit /\ [][EcoNext]_vars

\* ------------------------------ two callers of set_issue_tree_priority at once
\* Two processes call set_issue_tree_priority against the same repository;
\* op[w] is the call of caller w, hist the calls and returns in the order
\* they happened. No store request fails.
Writers == {1, 2}

RaceTexts == {<<7>>, <<8>>}

Event(kind, w) == [kind |-> kind, writer |-> w]

RaceInit ==
    /\ prio \in Boards
    /\ stage = InitStage
    /\ op = [w \in Writers |-> [Idle EXCEPT !.pc = "ready"]]
    /\ hist = <<>>
    /\ budget = 0 /\ eco = NoFile
    /\ faults = 0

\* the call, up to and including create_priority_label_if_needed
set_issue_tree_priority_by(w, issue_number, priority) ==
    /\ op[w].pc = "ready"
    /\ op' = [op EXCEPT ![w] = [@ EXCEPT !.kind = "set_issue_tree_priority",
                                         !.pc = "view",
                                         !.issue_id = issue_number,
                                         !.new_priority = priority]]
    /\ hist' = Append(hist, Event("call", w))
    /\ UNCHANGED <<prio, stage, budget, eco, faults>>

\* gh issue view --json labels
ViewLabelsBy(w) ==
    /\ op[w].pc = "view"
    /\ op' = [op EXCEPT ![w] = [@ EXCEPT !.labels = prio[op[w].issue_id],
                                         !.pc = IF prio[op[w].issue_id] = {}
                                                THEN "add" ELSE "remove"]]
    /\ UNCHANGED <<prio, stage, hist, budget, eco, faults>>

\* (variant: the label that was read is left on the issue)
RemoveLabelBy_KeepsLabel(w) ==
    /\ op[w].pc = "remove"
    /\ \E label \in op[w].labels :
          op' = [op EXCEPT ![w] = [@ EXCEPT !.labels = @ \ {label},
                                           !.pc = IF op[w].labels = {label}
                                                  THEN "add" ELSE "remove"]]
    /\ UNCHANGED <<prio, stage, hist, budget, eco, faults>>

\* one gh issue edit --remove-label of the loop over the labels that were read
RemoveLabelBy(w) ==
    /\ op[w].pc = "remove"
    /\ \E label \in op[w].labels :
          /\ op' = [op EXCEPT ![w] = [@ EXCEPT !.labels = @ \ {label},
                                              !.pc = IF op[w].labels = {label}
                                                     THEN "add" ELSE "remove"]]
          /\ prio' = [prio EXCEPT ![op[w].issue_id] = @ \ {label}]
    /\ UNCHANGED <<stage, hist, budget, eco, faults>>

\* gh issue edit --add-label priority-<new>, then return True
AddLabelBy(w) ==
    /\ op[w].pc = "add"
    /\ prio' = [prio EXCEPT ![op[w].issue_id] = @ \cup {op[w].new_priority}]
    /\ op' = [op EXCEPT ![w] = [@ EXCEPT !.pc = "done"]]
    /\ hist' = Append(hist, Event("return", w))
    /\ UNCHANGED <<stage, budget, eco, faults>>

RaceNext ==
    \/ \E w \in Writers, x \in Items, p \in RaceTexts : set_issue_tree_priority_by(w, x, p)
    \/ \E w \in Writers : ViewLabelsBy(w)
    \/ \E w \in Writers : RemoveLabelBy(w)
    \/ \E w \in Writers : AddLabelBy(w)

RaceSpec == RaceInit /\ [][RaceNext]_vars

\* ------------------------------------------------------------- properties
Last == hist[Len(hist)]
Finished(kinds) == op.kind = "idle" /\ hist # <<>> /\ Last.kind \in kinds

\* the key of an issue carrying exactly one priority label
KeyIn(P, i) == parse_tree_priority(CHOOSE t \in P[i] : TRUE)
SingleTagged(P) == \A i \in Items : Cardinality(P[i]) <= 1
Unprioritized(P, i) == i \notin Items \/ PriorityChoices(P[i]) = {<<NONE>>}
DistinctKeys(P) ==
    /\ SingleTagged(P)
    /\ \A i, j \in Items : (i # j /\ ~Unprioritized(P, i) /\ ~Unprioritized(P, j))
                              => KeyIn(P, i) # KeyIn(P, j)

\* the call wrote its key and the moved issue carries exactly that label
Wrote(h) == h.outcome = "returned" /\ h.success /\ prio[h.issue_id] = {h.new_priority}

\* C1: after move_issue_above(X, Y) returns having written X's key, on a
\* board of pairwise distinct keys, X's new key sorts strictly before Y's key
\* and strictly after the key of every issue that preceded Y before the call.
C1_MoveAbovePlacesAboveTarget ==
    (Finished({"move_issue_above"}) /\ Wrote(Last) /\ DistinctKeys(Last.pre)) =>
        LET new_key == parse_tree_priority(Last.new_priority)
            y == IndexOf(Last.listing, Last.target_issue_id)
        IN /\ ListLess(new_key, KeyIn(Last.pre, Last.target_issue_id))
           /\ \A k \in 1 .. (y - 1) :
                 Last.listing[k].number # Last.issue_id
                    => ListLess(Last.listing[k].priority_parsed, new_key)

\* C2: move_issue_above(X, Y) followed at once by move_issue_below(X, Y), both
\* writing X's key on a board of singly labelled issues, leaves X's key
\* strictly after Y's key and the priority labels of every other issue as
\* they were before the first call.
C2_AboveThenBelowEndsBelow ==
    (/\ Finished({"move_issue_below"}) /\ Len(hist) = 2
     /\ Wrote(Last) /\ SingleTagged(hist[1].pre)) =>
        /\ ListLess(KeyIn(prio, Last.target_issue_id),
                    parse_tree_priority(Last.new_priority))
        /\ \A i \in Items : i # Last.issue_id => prio[i] = hist[1].pre[i]

\* C3: after move_issue_between(X, A, B) returns having written X's key, on a
\* board of pairwise distinct keys, X's new key sorts strictly after A's key
\* and strictly before B's key.
C3_MoveBetweenPlacesBetween ==
    (Finished({"move_issue_between"}) /\ Wrote(Last) /\ DistinctKeys(Last.pre)) =>
        LET new_key == parse_tree_priority(Last.new_priority)
        IN /\ ListLess(KeyIn(Last.pre, Last.target_issue_id), new_key)
           /\ ListLess(new_key, KeyIn(Last.pre, Last.below_issue_id))

\* the issue moved by the call a step belongs to (0 when the step belongs to
\* no move)
Mover ==
    IF op.kind \in MoveKinds THEN op.issue_id
    ELSE IF op'.kind \in MoveKinds THEN op'.issue_id
    ELSE IF hist' # hist /\ hist' # <<>> /\ hist'[Len(hist')].kind \in MoveKinds
    THEN hist'[Len(hist')].issue_id
    ELSE 0

C5_OldKeyOrNewKey ==
    /\ (op.kind \in MoveKinds /\ Cardinality(op.pre[op.issue_id]) = 1) =>
          \/ prio[op.issue_id] = op.pre[op.issue_id]
          \/ prio[op.issue_id] = {op.new_priority}
    /\ (Finished(MoveKinds) /\ Last.issue_id \in Items
           /\ Cardinality(Last.pre[Last.issue_id]) = 1) =>
          \/ prio[Last.issue_id] = Last.pre[Last.issue_id]
          \/ prio[Last.issue_id] = {Last.new_priority}

\* the condition of C6 for a call c (in flight or finished)
NotFound(c) ==
    \/ c.issue_id \notin Items
    \/ c.pre[c.issue_id] = {}
    \/ c.target_issue_id = c.issue_id
    \/ Unprioritized(c.pre, c.target_issue_id)
    \/ /\ c.kind = "move_issue_between"
       /\ \/ c.below_issue_id = c.issue_id
          \/ Unprioritized(c.pre, c.below_issue_id)

\* C6: a move whose moving issue is not in the repository or carries no
\* priority label, or whose target (above, below) issue is not in the
\* remaining ordered list, raises and changes no label of any issue.
C6_NotFoundRaisesWithoutWrite ==
    /\ op.kind \in MoveKinds => ~NotFound(op)
    /\ (Finished(MoveKinds) /\ NotFound(Last)) =>
          /\ Last.outcome = "raised"
          /\ prio = Last.pre /\ stage = Last.prestage

C6_Witness ==
    /\ Finished(MoveKinds) /\ Last.outcome = "raised"
    /\ Last.issue_id \in Items /\ Last.pre[Last.issue_id] = {}
    /\ \E i \in Items : Last.pre[i] # {}

\* the condition of C7: both issues are in the remaining list and the above
\* one is not strictly before the below one, or they are the same issue
BadOrdering(c) ==
    LET a == IndexOf(c.listing, c.target_issue_id)
        b == IndexOf(c.listing, c.below_issue_id)
    IN /\ c.kind = "move_issue_between"
       /\ IndexOf(c.listing, c.issue_id) # 0
       /\ c.target_issue_id # c.issue_id /\ c.below_issue_id # c.issue_id
       /\ a # 0 /\ b # 0 /\ a >= b

\* C7: move_issue_between(X, A, B) raises and changes no label whenever A is
\* not strictly before B in the remaining ordered list, also when A = B.
C7_BadOrderingRaisesWithoutWrite ==
    /\ ~BadOrdering(op)
    /\ (Finished({"move_issue_between"}) /\ BadOrdering(Last)) =>
          /\ Last.outcome = "raised"
          /\ prio = Last.pre /\ stage = Last.prestage

C7_Witness ==
    /\ Finished({"move_issue_between"}) /\ BadOrdering(Last)
    /\ Last.target_issue_id # Last.below_issue_id
    /\ Last.outcome = "raised"

SetKinds == {"set_issue_tree_priority", "set_issue_status"}
MoveErrors == {"not found or has no priority", "Target issue not found",
               "Above issue not found", "Below issue not found",
               "Above issue must have higher priority than below issue"}

ExactlySlotMapLabels ==
    LET priority_map == priority_map_of(Last.slot_issues)
        status_map == status_updates_of(Last.slot_issues)
    IN \A i \in Items :
          IF i \in SlotIds(Last.slot_issues)
          THEN /\ i \in DOMAIN priority_map
               /\ prio[i] = {priority_map[i]}
               /\ stage[i] = {status_map[i]}
          ELSE prio[i] = {} /\ stage[i] = {}

DistinctIds(slot_issues) ==
    \A e, f \in 1 .. Len(slot_issues) :
        e # f => slot_issues[e].issueId # slot_issues[f].issueId

\* C10: after sync_slot_map_to_priorities has run to its end with no store
\* request failing, on a slot map of distinct ids, every issue of the slot
\* map carries exactly its new key and exactly the stage of its lane, and
\* every other issue carries no priority label and no stage label.
C10_SyncLeavesExactlySlotMapLabels ==
    (/\ Finished({"sync"}) /\ Last.outcome = "returned"
     /\ faults = MaxFaults /\ DistinctIds(Last.slot_issues))
        => ExactlySlotMapLabels

\* C10 as amended: the same, after a reconciliation that returned True.
C10_SuccessfulSyncLeavesExactlySlotMapLabels ==
    (/\ Finished({"sync"}) /\ Last.outcome = "returned" /\ Last.success
     /\ faults = MaxFaults /\ DistinctIds(Last.slot_issues))
        => ExactlySlotMapLabels

C10_Witness ==
    /\ Finished({"sync"}) /\ Last.outcome = "returned" /\ Last.success
    /\ faults = MaxFaults /\ DistinctIds(Last.slot_issues)
    /\ \E i \in Items \ SlotIds(Last.slot_issues) : Last.pre[i] # {} /\ prio[i] = {}
    /\ \E i \in SlotIds(Last.slot_issues) : prio[i] # Last.pre[i] /\ Len(Last.priority_updates[i]) > 1

\* C9: a move whose write-back of the new key failed does not return the
\* "Moved issue ..." confirmation.
C9_FailedWriteIsReported ==
    (Finished(MoveKinds) /\ Last.outcome = "returned" /\ ~Last.success)
        => Last.result # "Moved issue"

\* C11: a reconciliation run a second time with the same slot map, right
\* after the first has returned and with no store request failing, leaves
\* every priority and stage label as the first run left it.
C11_TwiceEqualsOnce ==
    (/\ op.kind = "idle" /\ Len(hist) = 2
     /\ hist[1].kind = "sync" /\ hist[2].kind = "sync"
     /\ hist[2].slot_issues = hist[1].slot_issues
     /\ hist[2].outcome = "returned" /\ faults = 0)
        => (prio = hist[2].pre /\ stage = hist[2].prestage)

C11_Witness ==
    /\ op.kind = "idle" /\ Len(hist) = 2
    /\ hist[1].kind = "sync" /\ hist[2].kind = "sync"
    /\ hist[1].success /\ hist[2].success
    /\ hist[1].pre # hist[2].pre
    /\ prio = hist[2].pre /\ stage = hist[2].prestage
    /\ \E i \in Items \ SlotIds(hist[2].slot_issues) : hist[1].pre[i] # {}

RemovalKinds == {"remove_priority", "remove_status"}

\* C12: when a command of the batch "Adding priority labels" fails, after a
\* batch "Removing old labels" in which no command failed and which did not
\* end the run, the reconciliation returns False and the batch it reports
\* as failed is "Adding priority labels".
C12_PhaseBFailureIsReported ==
    (/\ Finished({"sync"}) /\ Last.outcome = "returned"
     /\ \E c \in Last.failed : c.kind = "add_priority"
     /\ \E c \in Last.issued : c.kind \in RemovalKinds
     /\ \A c \in Last.failed : c.kind \notin RemovalKinds
     /\ Last.failed_phase # "Removing old labels")
        => (~Last.success /\ Last.failed_phase = "Adding priority labels")

\* position of a batch in the run, by its name and by its commands
PhaseIndex(name) ==
    IF name = "Removing old labels" THEN 1
    ELSE IF name = "Adding priority labels" THEN 2
    ELSE 3
PhaseOf(c) ==
    IF c.kind \in RemovalKinds THEN 1 ELSE IF c.kind = "add_priority" THEN 2 ELSE 3

\* the labels of issue i after the commands in done were applied to the
\* labels the call found
PrioAfter(c0, done, i) ==
    (c0.pre[i] \ {c.text : c \in {d \in done : d.issue = i /\ d.kind = "remove_priority"}})
        \cup {c.text : c \in {d \in done : d.issue = i /\ d.kind = "add_priority"}}
StageAfter(c0, done, i) ==
    (c0.prestage[i] \ {c.status : c \in {d \in done : d.issue = i /\ d.kind = "remove_status"}})
        \cup {c.status : c \in {d \in done : d.issue = i /\ d.kind = "add_status"}}

\* C13: when a batch ends with a non-zero return code, the reconciliation
\* returns False, no command of a later batch has been issued, and the labels
\* are those the commands that succeeded so far have produced.
C13_FailedPhaseStopsRun ==
    (Finished({"sync"}) /\ Last.failed_phase # "") =>
        /\ Last.outcome = "returned" /\ ~Last.success
        /\ \A c \in Last.issued : PhaseOf(c) <= PhaseIndex(Last.failed_phase)
        /\ \A i \in Items :
              /\ prio[i] = PrioAfter(Last, Last.issued \ Last.failed, i)
              /\ stage[i] = StageAfter(Last, Last.issued \ Last.failed, i)

C13_Witness ==
    /\ Finished({"sync"}) /\ Last.failed_phase = "Adding priority labels"
    /\ \E c \in Last.issued \ Last.failed : c.kind = "remove_priority"
    /\ \E c \in Last.issued \ Last.failed : c.kind = "add_priority"
    /\ Last.status_updates # <<>>
    /\ prio # Last.pre

\* C14: after a reconciliation that returned True and in which no write
\* command failed, no issue carries two priority labels, whichever label
\* reads failed.
C14_SuccessLeavesOnePriorityLabel ==
    (/\ Finished({"sync"}) /\ Last.outcome = "returned" /\ Last.success
     /\ Last.failed = {})
        => \A i \in Items : Cardinality(prio[i]) <= 1

\* the values get_issue_status can return for an issue with status labels S
StatusOf(S) == IF S = {} THEN {"backlog"} ELSE S

\* the issues holding key in the labelling P
Holders(P, key) == {i \in Items : \E t \in P[i] : parse_tree_priority(t) = key}

NoStoreFailure == faults = MaxFaults

\* C15: after set_issue_tree_priority_with_inheritance(item, key), no store
\* request having failed: when key has a parent key and some item holds that
\* parent key, the item carries one stage tag, the current stage of such an
\* item; when key is root-level or no item holds the parent key, the item's
\* stage tags are what they were.
C15_InheritsParentStage ==
    (/\ Finished({"set_issue_tree_priority_with_inheritance"})
     /\ Last.outcome = "returned" /\ Last.success /\ NoStoreFailure)
    => LET key == parse_tree_priority(Last.new_priority)
           parent_key == SubSeq(key, 1, Len(key) - 1)
           holders == IF Len(key) > 1 THEN Holders(prio, parent_key) ELSE {}
       IN IF holders # {}
          THEN \E h \in holders : \E st \in StatusOf(stage[h]) :
                  stage[Last.issue_id] = {st}
          ELSE stage[Last.issue_id] = Last.prestage[Last.issue_id]

\* key a is a strict descendant of key b
IsStrictDescendant(a, b) == Len(a) > Len(b) /\ SubSeq(a, 1, Len(b)) = b

\* C16: after sync_tree_statuses(root_key), no store request having failed,
\* on a collection with unique keys: every item whose key is a strict
\* descendant of root_key, all the keys between the two being held by items,
\* carries one stage tag, the stage of the item holding root_key.
C16_TreeCarriesRootStage ==
    (/\ Finished({"sync_tree_statuses"}) /\ NoStoreFailure /\ DistinctKeys(prio))
    => LET root_key == parse_tree_priority(Last.root_priority)
       IN \A h \in Holders(prio, root_key) : \A i \in Items :
             (/\ prio[i] # {}
              /\ IsStrictDescendant(KeyIn(prio, i), root_key)
              /\ \A d \in (Len(root_key) + 1) .. (Len(KeyIn(prio, i)) - 1) :
                     Holders(prio, SubSeq(KeyIn(prio, i), 1, d)) # {})
             => \E st \in StatusOf(stage[h]) : stage[i] = {st}

\* the root of the key of an issue of a list
RootOf(issue) == issue.priority_parsed[1]

\* the allocator rule table, on the keys of the list; position is zero-based
\* and the second component of the three-level placeholder is written only
\* where the key before has one
MatchesRuleTable(issues, position, text) ==
    IF Len(issues) = 0 THEN text = <<1>>
    ELSE IF position <= 0
    THEN text = (IF RootOf(issues[1]) > 1 THEN <<RootOf(issues[1]) - 1>> ELSE <<0, 5>>)
    ELSE IF position >= Len(issues)
    THEN text = <<RootOf(issues[Len(issues)]) + 1>>
    ELSE LET before == issues[position].priority_parsed
             after == issues[position + 1].priority_parsed
         IN IF before[1] # after[1] THEN text = <<before[1] + 1>>
            ELSE IF Len(before) = Len(after)
            THEN text = [before EXCEPT ![Len(before)] = @ + 1]
            ELSE /\ Len(text) = 3 /\ text[1] = before[1] /\ text[3] = 5
                 /\ Len(before) > 1 => text[2] = before[2]

\* C17: calculate_insertion_priority returns for every ordered list and every
\* position, and what it returns is the key text of the allocator rule table.
C17_TotalAndMatchesRuleTable ==
    Finished({"calculate_insertion_priority"})
    => /\ Last.outcome = "returned"
       /\ MatchesRuleTable(Last.listing, Last.position, Last.new_priority)

\* C18: for an ordered list whose keys are pairwise distinct, the key that
\* calculate_insertion_priority returns is the key of no item of the list.
C18_ReturnedKeyIsFresh ==
    (/\ Finished({"calculate_insertion_priority"}) /\ Last.outcome = "returned"
     /\ \A j, k \in 1 .. Len(Last.listing) :
           j # k => Last.listing[j].priority_parsed # Last.listing[k].priority_parsed)
    => \A k \in 1 .. Len(Last.listing) :
          parse_tree_priority(Last.new_priority) # Last.listing[k].priority_parsed

\* a part that is the numeral of an integer, and the integer it denotes
IsNumeral(p) == p > WordBase
ValueOf(p) == IF p >= PadBase /\ p < HugeBase THEN p - PadBase ELSE p

\* a numeral that int() converts: one of at most 4300 digits
IsShortNumeral(p) == IsNumeral(p) /\ p < OverlongBase

AliasKey(text) == IF text = <<HIGH>> THEN <<1>>
                  ELSE IF text = <<MEDIUM>> THEN <<2>>
                  ELSE <<3>>

IsAlias(text) == text \in {<<HIGH>>, <<MEDIUM>>, <<LOW>>}

IsValidText(text) ==
    IsAlias(text) \/ \A k \in 1 .. Len(text) : IsShortNumeral(text[k])

KeyBefore(a, b) ==
    LET common == {k \in 1 .. Len(a) : k <= Len(b)}
        differ == {k \in common : a[k] # b[k]}
    IN IF differ = {} THEN Len(a) < Len(b)
       ELSE LET k == CHOOSE d \in differ : \A e \in differ : d <= e
            IN a[k] < b[k]

SortedKeys == [k \in 1 .. Len(Last.listing) |-> Last.listing[k].priority_parsed]

\* C21: the sorted listing is in the order that compares components pairwise
\* by integer value and puts a strict prefix first; that order is total;
\* every key comes before its descendants, and a key strictly between a key
\* and one of its descendants is itself a descendant of that key.
C21_SortOrderIsNumericPrefixFirst ==
    Finished({"sort"})
    => LET n == Len(SortedKeys)
       IN /\ \A i, j \in 1 .. n : i < j => ~KeyBefore(SortedKeys[j], SortedKeys[i])
          /\ \A i, j \in 1 .. n :
                \/ SortedKeys[i] = SortedKeys[j]
                \/ KeyBefore(SortedKeys[i], SortedKeys[j]) /\ ~KeyBefore(SortedKeys[j], SortedKeys[i])
                \/ KeyBefore(SortedKeys[j], SortedKeys[i]) /\ ~KeyBefore(SortedKeys[i], SortedKeys[j])
          /\ \A i, j \in 1 .. n :
                IsStrictDescendant(SortedKeys[j], SortedKeys[i]) => i < j
          /\ \A i, j, k \in 1 .. n :
                (/\ i < j /\ j < k
                 /\ SortedKeys[i] # SortedKeys[j]
                 /\ IsStrictDescendant(SortedKeys[k], SortedKeys[i])
                 /\ SortedKeys[j] # SortedKeys[k])
                => IsStrictDescendant(SortedKeys[j], SortedKeys[i])

C21_Witness ==
    /\ Finished({"sort"})
    /\ Len(SortedKeys) = 3
    /\ SortedKeys = << <<1, 2>>, <<1, 10>>, <<2>> >>
    /\ Last.listing[1].number = 3

\* the priority of a listed issue is a text parse_tree_priority reads as a
\* key (an alias or integers); 'none' and the texts that end in the sentinel
\* through ValueError are not
IsParseable(priority) ==
    \/ priority \in {<<HIGH>>, <<MEDIUM>>, <<LOW>>}
    \/ \A k \in 1 .. Len(priority) : IsIntText(priority[k])

\* C22: in every listing the engine can produce, the issues without a
\* priority label or with an unparsable one come after every issue with a
\* parseable key.
C22_UnparsableSortsLast ==
    \A all_issues \in Listings :
       \A j, k \in 1 .. Len(all_issues) :
          (~IsParseable(all_issues[j].priority) /\ IsParseable(all_issues[k].priority))
          => k < j

\* in the labelling P, issue p holds the key of issue c without its last
\* component
IsParentIn(P, c, p) ==
    /\ c # p
    /\ \E tc \in P[c] : \E tp \in P[p] :
          LET key == parse_tree_priority(tc)
          IN /\ Len(key) > 1
             /\ parse_tree_priority(tp) = SubSeq(key, 1, Len(key) - 1)

\* C23: after a move that wrote its key, no store request having failed,
\* every item that had a parent before the move has the same item as parent.
C23_MoveKeepsParents ==
    (/\ Finished(MoveKinds) /\ Wrote(Last) /\ NoStoreFailure)
    => \A c, p \in Items : IsParentIn(Last.pre, c, p) => IsParentIn(prio, c, p)

\* the calls ran one at a time: every call is followed at once by its return
OneAtATime ==
    \A k \in 1 .. Len(hist) :
       IF k % 2 = 1 THEN hist[k].kind = "call"
       ELSE hist[k].kind = "return" /\ hist[k].writer = hist[k - 1].writer

\* C24: when the calls of set_issue_tree_priority run one at a time, no store
\* request failing, the issue a call has just written carries exactly one
\* priority label, the one written. (That two interleaved calls can leave an
\* issue with two priority labels is C24_Witness.)
C24_OneAtATimeLeavesOneLabel ==
    (hist # <<>> /\ OneAtATime /\ Len(hist) % 2 = 0)
    => LET w == hist[Len(hist)].writer
       IN prio[op[w].issue_id] = {op[w].new_priority}

C24_Witness ==
    /\ \A w \in Writers : op[w].pc = "done"
    /\ ~OneAtATime
    /\ op[1].issue_id = op[2].issue_id
    /\ Cardinality(prio[op[1].issue_id]) = 2

\* C25: whenever set_issue_status(repo, item, s) reports success, the item
\* carries exactly one stage tag, status-s.
C25_SuccessLeavesOneStageTag ==
    (/\ Finished({"set_issue_status"}) /\ Last.outcome = "returned" /\ Last.success)
    => stage[Last.issue_id] = {Last.status}

\* C26: from any current stage, or none, set_issue_status of an existing
\* item to any of the seven stages succeeds when no store request fails,
\* and the item then carries that stage.
C26_AnyStageFromAnyStage ==
    (/\ Finished({"set_issue_status"}) /\ NoStoreFailure /\ Last.issue_id \in Items)
    => /\ Last.outcome = "returned" /\ Last.success
       /\ stage[Last.issue_id] = {Last.status}

C26_Witness ==
    /\ Finished({"set_issue_status"}) /\ NoStoreFailure
    /\ Last.issue_id = 1 /\ Last.prestage[1] = {"archived"}
    /\ Last.status = "learn" /\ Last.success
    /\ stage[1] = {"learn"}

\* C27: every key parse_tree_priority returns is a non-empty sequence of
\* non-negative integers.
C27_KeysAreNonNegative ==
    Finished({"parse_tree_priority"})
    => /\ Last.outcome = "returned"
       /\ Len(Last.result) >= 1
       /\ \A k \in 1 .. Len(Last.result) : Last.result[k] >= 0

\* the commands of the run that have not completed: those of the running
\* batch still pending and those of the batches to come
NotCompleted == op.pending \cup CommandsIn(op.todo)

\* C28: during a reconciliation no write of a later phase has started while
\* a write of an earlier phase (A removals, B priority labels, C status
\* labels) has not completed.
C28_PhasesAreBarriers ==
    op.kind = "sync" /\ op.pc = "batch"
    => \A c \in op.issued : \A d \in NotCompleted : PhaseOf(c) <= PhaseOf(d)

C28_Witness ==
    /\ op.kind = "sync" /\ op.pc = "batch" /\ op.phase = "Adding status labels"
    /\ Cardinality({c \in op.issued : PhaseOf(c) = 1}) >= 2
    /\ Cardinality({c \in op.issued : PhaseOf(c) = 2}) >= 2
    /\ \E c \in op.issued : PhaseOf(c) = 3
    /\ op.pending # {}

\* C29: the label reads of a reconciliation never end it: whatever reads
\* fail, the batches that follow hold the removals of the labels of every
\* issue but those whose read failed, and the priority and the status label
\* of every slot map entry.
C29_FailedReadDoesNotAbort ==
    [][(op.kind = "sync" /\ op.pc = "scan")
       => LET scheduled == IF op'.kind = "sync"
                           THEN op'.pending \cup CommandsIn(op'.todo) ELSE {}
          IN /\ \/ op'.kind = "sync" /\ op'.pc = "batch"
                \/ /\ scheduled = {} /\ hist' # <<>>
                   /\ hist'[Len(hist')].outcome = "returned"
                   /\ hist'[Len(hist')].success
             /\ priority_commands_of(op.priority_updates) \subseteq scheduled
             /\ status_commands_of(op.status_updates) \subseteq scheduled
             /\ \E unread \in SUBSET op.all_repo_issues :
                   /\ Cardinality(unread) = faults - faults'
                   /\ removal_commands_of(op.all_repo_issues \ unread) \subseteq scheduled
      ]_vars

C29_Witness ==
    /\ Finished({"sync"}) /\ Last.outcome = "returned" /\ Last.success
    /\ Last.failed = {} /\ faults < MaxFaults
    /\ \E i \in Items :
          /\ Last.pre[i] # {}
          /\ \A c \in Last.issued : c.issue = i => PhaseOf(c) > 1
          /\ Last.pre[i] \subseteq prio[i]
    /\ \E c \in Last.issued : PhaseOf(c) = 1
    /\ priority_commands_of(Last.priority_updates) \subseteq Last.issued
    /\ status_commands_of(Last.status_updates) \subseteq Last.issued

\* C30: in the priority_map of a reconciliation the direct children of
\* every entry that received a key carry that key extended by 1, 2, ..., n
\* in slot order, whatever the number of grandchildren.
C30_ChildrenNumberedWithoutGaps ==
    Finished({"assign_priority"})
    => LET slot_issues == Last.slot_issues
           priority_map == Last.result
       IN \A e \in 1 .. Len(slot_issues) :
             slot_issues[e].issueId \in DOMAIN priority_map
             => LET children == lane_parent_map(slot_issues, slot_issues[e].lane,
                                                slot_issues[e].slotIndex)
                IN \A k \in 1 .. Len(children) :
                      /\ slot_issues[children[k]].issueId \in DOMAIN priority_map
                      /\ priority_map[slot_issues[children[k]].issueId]
                            = Append(priority_map[slot_issues[e].issueId], str(k))

\* the place of a stage in the order learn, measure, build, plan, backlog,
\* blocked, archived
StageRank(lane) ==
    CHOOSE k \in 1 .. 7 :
        <<"learn", "measure", "build", "plan", "backlog", "blocked", "archived">>[k] = lane

\* root entry f comes before root entry e: an earlier stage, or the same
\* stage and an earlier slot
RootBefore(slot_issues, f, e) ==
    \/ StageRank(slot_issues[f].lane) < StageRank(slot_issues[e].lane)
    \/ /\ slot_issues[f].lane = slot_issues[e].lane
       /\ slot_issues[f].slotIndex < slot_issues[e].slotIndex

RootEntries(slot_issues) ==
    {e \in 1 .. Len(slot_issues) : slot_issues[e].parentSlot = NoParent}

\* C31: the root entries of a slot map receive the top-level keys 1, 2, 3,
\* ... with no gap, in stage order (learn first, archived last) and in slot
\* order within a stage: each root entry is assigned once, the number of
\* root entries before it plus one.
C31_RootsNumberedInStageOrder ==
    Finished({"assign_priority"})
    => LET slot_issues == Last.slot_issues
           writes == Last.listing
       IN \A e \in RootEntries(slot_issues) :
             /\ Cardinality({w \in 1 .. Len(writes) : writes[w].entry = e}) = 1
             /\ \A w \in 1 .. Len(writes) :
                   writes[w].entry = e
                   => writes[w].priority =
                        <<Cardinality({f \in RootEntries(slot_issues) :
                                          RootBefore(slot_issues, f, e)}) + 1>>

C31_Witness ==
    /\ Finished({"assign_priority"})
    /\ \E e, f, g \in RootEntries(Last.slot_issues) :
          /\ Last.slot_issues[e].lane = "learn" /\ Last.slot_issues[f].lane = "learn"
          /\ Last.slot_issues[e].slotIndex < Last.slot_issues[f].slotIndex
          /\ Last.slot_issues[g].lane = "backlog"
          /\ \E u, v, w \in 1 .. Len(Last.listing) :
                /\ Last.listing[u].entry = e /\ Last.listing[u].priority = <<1>>
                /\ Last.listing[v].entry = f /\ Last.listing[v].priority = <<2>>
                /\ Last.listing[w].entry = g /\ Last.listing[w].priority = <<3>>

\* key b is key a or a descendant of it
IsKeyPrefix(a, b) == Len(b) >= Len(a) /\ SubSeq(b, 1, Len(a)) = a

\* C32: every step of sync_tree_statuses(root_key) leaves the stage tags of
\* an item alone unless one of its keys has root_key as a component-wise
\* prefix.
C32_SyncTouchesOnlyTheSubtree ==
    [][op.kind = "sync_tree_statuses"
       => \A i \in Items :
             stage'[i] # stage[i]
             => \E t \in prio[i] :
                   IsKeyPrefix(parse_tree_priority(op.root_priority),
                               parse_tree_priority(t))]_vars

\* the requests of the execute_task in flight or just finished
TaskCalls ==
    IF op.kind = "execute_task" THEN op.calls
    ELSE IF Finished({"execute_task"}) THEN Last.calls ELSE <<>>

TaskIssue ==
    IF op.kind = "execute_task" THEN op.issue_id
    ELSE IF Finished({"execute_task"}) THEN Last.issue_id ELSE 0

C34_AssignedKeysAreDistinct ==
    (Finished({"assign_priority"}) /\ DistinctIds(Last.slot_issues))
    => \A i, j \in DOMAIN Last.result :
          parse_tree_priority(Last.result[i]) = parse_tree_priority(Last.result[j])
          => i = j

C34_Witness ==
    /\ Finished({"assign_priority"}) /\ DistinctIds(Last.slot_issues)
    /\ Cardinality(DOMAIN Last.result) = NItems + 1
    /\ \E i, k \in DOMAIN Last.result :
          Len(Last.result[i]) = 3 /\ Last.result[k] = <<1, 3>>

\* entry e of slot_issues reaches a root entry of its lane in at most n
\* steps along parentSlot
RECURSIVE LeadsToRoot(_, _, _)
LeadsToRoot(slot_issues, e, n) ==
    \/ slot_issues[e].parentSlot = NoParent
    \/ /\ n > 0
       /\ \E f \in 1 .. Len(slot_issues) :
             /\ slot_issues[f].lane = slot_issues[e].lane
             /\ slot_issues[f].slotIndex = slot_issues[e].parentSlot
             /\ LeadsToRoot(slot_issues, f, n - 1)

HasRootlessEntry(slot_issues) ==
    \E e \in 1 .. Len(slot_issues) : ~LeadsToRoot(slot_issues, e, Len(slot_issues))

C36_ChildSharesParentStage ==
    (/\ Finished({"sync"}) /\ Last.outcome = "returned" /\ Last.success
     /\ NoStoreFailure /\ DistinctIds(Last.slot_issues))
    => \A i \in Items : \A t \in prio[i] :
          LET key == parse_tree_priority(t)
          IN Len(key) > 1
             => /\ stage[i] # {}
                /\ \E h \in Holders(prio, SubSeq(key, 1, Len(key) - 1)) :
                      h # i /\ stage[h] = stage[i]

C36_Witness ==
    /\ Finished({"sync"}) /\ Last.outcome = "returned" /\ Last.success
    /\ NoStoreFailure /\ DistinctIds(Last.slot_issues)
    /\ \E i, j \in Items :
          /\ prio[i] = {<<1, 1>>} /\ prio[j] = {<<1>>}
          /\ stage[i] = {"learn"} /\ stage[j] = {"learn"}
          /\ Last.prestage[i] # stage[i]
    /\ \E k \in Items : prio[k] = {<<2>>} /\ stage[k] = {"backlog"}

\* C37: in every step of set_issue_status the stage labels of an issue
\* change only by the new label being added, or by other labels being taken
\* off an issue that carries the new one and keeps it; an issue that had a
\* stage label keeps at least one; and a call that reports failure has
\* changed no stage label.
C37_NeverWithoutStageTag ==
    [][/\ \A i \in Items :
             stage'[i] # stage[i]
             => /\ op.kind = "set_issue_status" /\ i = op.issue_id
                /\ \/ stage'[i] = stage[i] \cup {op.status}
                   \/ /\ op.status \in stage[i] /\ op.status \in stage'[i]
                      /\ stage'[i] \subseteq stage[i]
                /\ stage'[i] # {}
       /\ (/\ op.kind = "set_issue_status" /\ op'.kind = "idle" /\ hist' # <<>>
           /\ hist'[Len(hist')].outcome = "returned" /\ ~hist'[Len(hist')].success)
          => stage' = hist'[Len(hist')].prestage
      ]_vars

C37_Witness ==
    /\ op.kind = "set_issue_status" /\ op.pc = "remove_status"
    /\ op.issue_id = 1 /\ op.prestage[1] = {"archived"}
    /\ stage[1] = {"archived", "plan"} /\ op.stages = {"archived"}


EcoCalls(kind) ==
    IF op.kind = kind THEN op.calls
    ELSE IF Finished({kind}) THEN Last.calls ELSE <<>>

IsWriteAttempt(c) == c.fn = "put_ecosystem_json"
WriteAttempts == SelectSeq(EcoCalls("create_ecosystem_repo"), IsWriteAttempt)

\* C38: create_ecosystem_repo attempts the write of the initial
\* configuration at most three times and never again after an attempt that
\* succeeded; it gives up only after the third failed attempt; it returns
\* success exactly when an attempt succeeded, and the file is then the
\* initial configuration; when the creation of the repository failed no
\* write is attempted and the result is failure; no error leaves the call.
C38_WriteTriedAtMostThreeTimes ==
    LET calls == EcoCalls("create_ecosystem_repo")
        writes == WriteAttempts
    IN /\ Len(writes) <= 3
       /\ \A k \in 1..(Len(writes) - 1) : writes[k].arg = "CalledProcessError"
       /\ (calls # <<>> /\ calls[1].arg # "ok") => writes = <<>>
       /\ Finished({"create_ecosystem_repo"}) =>
             /\ Last.outcome = "returned"
             /\ Last.success <=> (\E k \in DOMAIN writes : writes[k].arg = "ok")
             /\ Last.success => eco = initial_config(Last.ecosystem_type)
             /\ (writes # <<>> /\ writes[Len(writes)].arg = "CalledProcessError")
                   => Len(writes) = 3

C38_Witness ==
    /\ Finished({"create_ecosystem_repo"})
    /\ Last.success
    /\ Len(WriteAttempts) = 3

C38_GivesUpWitness ==
    /\ Finished({"create_ecosystem_repo"})
    /\ ~Last.success
    /\ Len(WriteAttempts) = 3

RECURSIVE Occurrences(_, _)
Occurrences(repos, target_repo) ==
    IF repos = <<>> THEN 0
    ELSE (IF Head(repos) = target_repo THEN 1 ELSE 0) + Occurrences(Tail(repos), target_repo)

ListedOnce(file, section, target_repo) ==
    /\ file # NoFile
    /\ section \in DOMAIN file
    /\ Occurrences(file[section], target_repo) = 1

====
